---------------------------- MODULE Spec2Model ----------------------------
(***************************************************************************)
(* Academic-performance statistics: the load pipeline (data/loader.py),    *)
(* the performance classifier (data/processor.py), the aggregations        *)
(* (utils/calculations.py) and the KPI / analytics request handlers        *)
(* (api/routes).                                                           *)
(*                                                                         *)
(* Representation.  A text is a sequence of one-character strings, so that *)
(* lower-casing, pattern search and numeric parsing are computed.  A cell  *)
(* is null, a Float64, an Int or a Utf8 text.  A Float64 is kept as an     *)
(* integer number of hundredths (79.99 is 7999); a reported rate is an     *)
(* exact fraction until it is rounded to two decimals.  A table is a set   *)
(* of column names and a sequence of rows, each row a function from the    *)
(* column names to cells.                                                  *)
(***************************************************************************)
EXTENDS Integers, Sequences, FiniteSets, TLC

VARIABLES source, df, pc, resp, cache, calls, reloaded

vars == <<source, df, pc, resp, cache, calls, reloaded>>

(* api/dependencies.py: cache is the lru_cache of get_dataframe (at most   *)
(* one entry), calls the get_dataframe calls of the requests being served, *)
(* reloaded whether reload_data ran since the last response.               *)
Callers == {"r1", "r2"}
IdleCall == [pc |-> "idle", table |-> [cols |-> {}, rows |-> <<>>]]
serving == <<cache, calls, reloaded>>
NotServing ==
    /\ cache = <<>>
    /\ calls = [c \in Callers |-> IdleCall]
    /\ reloaded = FALSE

---------------------------------------------------------------------------
(* Texts *)

UpperChars == <<"A","B","C","D","E","F","G","H","I","J","K","L","M",
                "N","O","P","Q","R","S","T","U","V","W","X","Y","Z">>
LowerChars == <<"a","b","c","d","e","f","g","h","i","j","k","l","m",
                "n","o","p","q","r","s","t","u","v","w","x","y","z">>
DigitChars == <<"0","1","2","3","4","5","6","7","8","9">>
Whitespace == {" "}

IsUpper(c) == \E k \in DOMAIN UpperChars : UpperChars[k] = c
IsLower(c) == \E k \in DOMAIN LowerChars : LowerChars[k] = c
IsDigit(c) == \E k \in DOMAIN DigitChars : DigitChars[k] = c

LowerChar(c) ==
    IF IsUpper(c) THEN LowerChars[CHOOSE k \in DOMAIN UpperChars : UpperChars[k] = c] ELSE c
UpperChar(c) ==
    IF IsLower(c) THEN UpperChars[CHOOSE k \in DOMAIN LowerChars : LowerChars[k] = c] ELSE c

to_lowercase(s) == [i \in 1..Len(s) |-> LowerChar(s[i])]
to_uppercase(s) == [i \in 1..Len(s) |-> UpperChar(s[i])]

(* str.contains of a literal pattern *)
Contains(s, pat) ==
    \E i \in 1..(Len(s) - Len(pat) + 1) : SubSeq(s, i, i + Len(pat) - 1) = pat

(* all the positions lo..hi of s hold white space *)
AllSpace(s, lo, hi) == \A k \in lo..hi : s[k] \in Whitespace

DigitVal(c) == (CHOOSE k \in DOMAIN DigitChars : DigitChars[k] = c) - 1

RECURSIVE ParseNat(_)
ParseNat(s) ==
    IF s = <<>> THEN 0
    ELSE 10 * ParseNat(SubSeq(s, 1, Len(s) - 1)) + DigitVal(s[Len(s)])

RECURSIVE FormatNat(_)
FormatNat(n) ==
    IF n < 10 THEN <<DigitChars[n + 1]>>
    ELSE FormatNat(n \div 10) \o <<DigitChars[(n % 10) + 1]>>

AllDigits(s) == s # <<>> /\ \A i \in 1..Len(s) : IsDigit(s[i])

---------------------------------------------------------------------------
(* Cells and casts *)

Null == [t |-> "null"]
F64(v) == [t |-> "f64", v |-> v]
I64(v) == [t |-> "int", v |-> v]
Utf8(s) == [t |-> "str", s |-> s]

IsNull(c) == c.t = "null"

(* text of a Float64: 75.0 -> "75.0", 39.99 -> "39.99" *)
FormatF64(v) ==
    FormatNat(v \div 100) \o <<".">> \o
        (IF v % 10 = 0 THEN <<DigitChars[((v % 100) \div 10) + 1]>>
         ELSE <<DigitChars[((v % 100) \div 10) + 1], DigitChars[(v % 10) + 1]>>)

(* Float64 of a text, or null when the text is no number: digits, with at  *)
(* most two decimals                                                       *)
ParseF64(s) ==
    IF AllDigits(s) THEN F64(100 * ParseNat(s))
    ELSE IF \E p \in 2..(Len(s) - 1) :
                /\ s[p] = "."
                /\ AllDigits(SubSeq(s, 1, p - 1))
                /\ AllDigits(SubSeq(s, p + 1, Len(s)))
                /\ Len(s) - p <= 2
         THEN LET p == CHOOSE q \in 2..(Len(s) - 1) : s[q] = "."
                  whole == ParseNat(SubSeq(s, 1, p - 1))
                  frac == SubSeq(s, p + 1, Len(s))
              IN  F64(100 * whole + (IF Len(frac) = 1 THEN 10 * ParseNat(frac)
                                     ELSE ParseNat(frac)))
         ELSE Null

(* cast(pl.Utf8, strict=False) *)
CastUtf8(c) ==
    CASE c.t = "str" -> c
      [] c.t = "f64" -> Utf8(FormatF64(c.v))
      [] c.t = "int" -> Utf8(FormatNat(c.v))
      [] OTHER -> Null

(* cast(pl.Float64, strict=False): a text that is no number becomes null *)
CastF64(c) ==
    CASE c.t = "f64" -> c
      [] c.t = "int" -> F64(100 * c.v)
      [] c.t = "str" -> ParseF64(c.s)
      [] OTHER -> Null

(* cast(pl.Int32, strict=False) *)
CastI32(c) ==
    CASE c.t = "int" -> c
      [] c.t = "f64" -> I64(c.v \div 100)
      [] c.t = "str" -> IF AllDigits(c.s) THEN I64(ParseNat(c.s)) ELSE Null
      [] OTHER -> Null

fill_null(c, d) == IF IsNull(c) THEN d ELSE c

---------------------------------------------------------------------------
(* Tables *)

Height(t) == Len(t.rows)

(* df.with_columns(expr.alias(name)): series holds the new cell of each row *)
with_column(t, name, series) ==
    [cols |-> t.cols \cup {name},
     rows |-> [i \in 1..Len(t.rows) |->
                 [c \in t.cols \cup {name} |->
                    IF c = name THEN series[i] ELSE t.rows[i][c]]]]

rename(t, old, new) ==
    LET cs == (t.cols \ {old}) \cup {new}
    IN  [cols |-> cs,
         rows |-> [i \in 1..Len(t.rows) |->
                     [c \in cs |-> IF c = new THEN t.rows[i][old] ELSE t.rows[i][c]]]]

drop(t, name) ==
    [cols |-> t.cols \ {name},
     rows |-> [i \in 1..Len(t.rows) |-> [c \in t.cols \ {name} |-> t.rows[i][c]]]]

RECURSIVE SelectSeq2(_, _)
SelectSeq2(s, keep) ==
    IF s = <<>> THEN <<>>
    ELSE (IF keep[1] THEN <<s[1]>> ELSE <<>>) \o
         SelectSeq2(Tail(s), Tail(keep))

(* df.filter: the rows whose mask is true, in their order *)
filter(t, mask) ==
    [cols |-> t.cols, rows |-> SelectSeq2(t.rows, mask)]

EmptyTable == [cols |-> {}, rows |-> <<>>]

---------------------------------------------------------------------------
(* More text operations used by the loader *)

IsAlnum(c) == IsUpper(c) \/ IsLower(c) \/ IsDigit(c)

RECURSIVE CollapseFrom(_, _, _)
CollapseFrom(s, m, i) ==
    IF i > Len(s) THEN <<>>
    ELSE (IF m[i] THEN (IF i > 1 /\ m[i - 1] THEN <<>> ELSE <<" ">>) ELSE <<s[i]>>)
         \o CollapseFrom(s, m, i + 1)

(* str.replace_all(r'\s+', ' ') *)
CollapseSpace(s) == CollapseFrom(s, [i \in 1..Len(s) |-> s[i] \in Whitespace], 1)

(* str.replace_all(r'[^A-Z0-9]+', ' ') *)
CollapseNonKey(s) ==
    CollapseFrom(s, [i \in 1..Len(s) |-> ~(IsUpper(s[i]) \/ IsDigit(s[i]))], 1)

strip(s) ==
    LET keep == {i \in 1..Len(s) : s[i] \notin Whitespace}
    IN  IF keep = {} THEN <<>>
        ELSE SubSeq(s, CHOOSE i \in keep : \A j \in keep : i <= j,
                       CHOOSE i \in keep : \A j \in keep : i >= j)

to_titlecase(s) ==
    [i \in 1..Len(s) |->
        IF i = 1 \/ ~IsAlnum(s[i - 1]) THEN UpperChar(s[i]) ELSE LowerChar(s[i])]

(* the places where four digits start *)
FourDigitsAt(s) == {i \in 1..(Len(s) - 3) : AllDigits(SubSeq(s, i, i + 3))}

(* str.extract(r'(\d{4})', 1).cast(pl.Int32, strict=False) *)
ExtractYear(c) ==
    IF c.t # "str" \/ FourDigitsAt(c.s) = {} THEN Null
    ELSE LET i == CHOOSE k \in FourDigitsAt(c.s) : \A j \in FourDigitsAt(c.s) : k <= j
         IN  I64(ParseNat(SubSeq(c.s, i, i + 3)))

(* str.extract(r'^\d{4}(\d{2})', 1).cast(pl.Int32, strict=False) *)
ExtractSemester(c) ==
    IF c.t = "str" /\ Len(c.s) >= 6 /\ AllDigits(SubSeq(c.s, 1, 6))
    THEN I64(ParseNat(SubSeq(c.s, 5, 6)))
    ELSE Null

---------------------------------------------------------------------------
(* data/loader.py: _validate_and_process *)

(* the order of the columns of a file, for the loops that walk df.columns *)
ColumnOrder == <<"student_id", "studentid", "student_name", "name", "subject",
                 "subject_name", "department", "dept", "offering_department",
                 "course_name", "course", "exam_name", "exam", "exam_month",
                 "exam_year", "year", "academic_year", "semester", "pass_fail",
                 "theory_percentage", "practical_percentage", "theory_result",
                 "theory_internal_result", "practical_result",
                 "practical_internal_result", "theory_credit", "practical_credit",
                 "theory_internal_percentage", "practical_internal_percentage",
                 "theory_ese_percentage", "practical_ese_percentage",
                 "cia1_theory_internal", "cia2_theory_internal",
                 "cia3_theory_internal", "cia1_practical_internal",
                 "cia2_practical_internal", "cia3_practical_internal",
                 "ese_theory_internal", "ese_practical_internal",
                 "cia_theory_avg", "cia_practical_avg", "cia_obtained", "cia_max",
                 "ese_obtainded", "ese_max", "total_theory_marks",
                 "total_practical_marks", "grade">>

(* 'theory' in col and 'internal' in col, over the column names above *)
theory_cols == {"theory_internal_percentage", "theory_internal_result",
                "cia1_theory_internal", "cia2_theory_internal",
                "cia3_theory_internal", "ese_theory_internal"}

(* 'practical' in col and 'internal' in col *)
practical_cols == {"practical_internal_percentage", "practical_internal_result",
                   "cia1_practical_internal", "cia2_practical_internal",
                   "cia3_practical_internal", "ese_practical_internal"}

(* 'year' in c *)
year_like == {"exam_year", "year", "academic_year"}

str_cols == {"student_id", "subject", "department", "student_name", "course_name"}

(* the columns of t in file order *)
OrderedCols(t, among) ==
    SelectSeq(ColumnOrder, LAMBDA c : c \in t.cols /\ c \in among)

(* one entry of column_map: the first variant present takes the standard name *)
RenameStd(t, std, variants) ==
    LET found == {k \in DOMAIN variants : variants[k] \in t.cols}
    IN  IF found = {} THEN t
        ELSE LET v == variants[CHOOSE k \in found : \A j \in found : k <= j]
             IN  IF v # std THEN rename(t, v, std) ELSE t

StandardizeColumns(t) ==
    LET t1 == RenameStd(t, "student_id", <<"student_id", "studentid">>)
        t2 == RenameStd(t1, "subject", <<"subject", "subject_name", "name">>)
        t3 == RenameStd(t2, "department", <<"department", "dept", "offering_department">>)
        t4 == RenameStd(t3, "exam_name", <<"exam_name", "exam">>)
        t5 == RenameStd(t4, "student_name", <<"student_name", "name">>)
    IN  RenameStd(t5, "course_name", <<"course_name", "course">>)

(* 'exam_year' not in frame.columns or                                     *)
(* frame['exam_year'].fill_null(0).is_null().all()                         *)
YearStillMissing(t) ==
    \/ "exam_year" \notin t.cols
    \/ \A i \in 1..Len(t.rows) : IsNull(fill_null(t.rows[i]["exam_year"], I64(0)))

(* cast to Int32 of the first year-like column that has a value *)
YearFromYearLike(t) ==
    LET cands == OrderedCols(t, year_like)
        good == {k \in DOMAIN cands :
                    \E i \in 1..Len(t.rows) : ~IsNull(CastI32(t.rows[i][cands[k]]))}
    IN  IF good = {} THEN t
        ELSE LET c == cands[CHOOSE k \in good : \A j \in good : k <= j]
             IN  with_column(t, "exam_year", [i \in DOMAIN t.rows |-> LET r == t.rows[i] IN CastI32(r[c])])

ColIsUtf8(t, c) ==
    /\ \A i \in 1..Len(t.rows) : t.rows[i][c].t \in {"str", "null"}

RECURSIVE ConcatCells(_, _)
ConcatCells(r, cs) ==
    IF cs = <<>> THEN <<>>
    ELSE (IF IsNull(r[cs[1]]) THEN <<>> ELSE r[cs[1]].s)
         \o (IF Len(cs) > 1 THEN <<" ">> ELSE <<>>) \o ConcatCells(r, Tail(cs))

YearFromText(t) ==
    LET text_cols == SelectSeq(ColumnOrder, LAMBDA c : c \in t.cols /\ ColIsUtf8(t, c))
    IN  IF text_cols = <<>> THEN t
        ELSE with_column(t, "exam_year",
                         [i \in DOMAIN t.rows |-> LET r == t.rows[i] IN ExtractYear(Utf8(ConcatCells(r, text_cols)))])

_ensure_exam_year(frame) ==
    IF "exam_year" \in frame.cols
    THEN with_column(frame, "exam_year", [i \in DOMAIN frame.rows |-> LET r == frame.rows[i] IN CastI32(r["exam_year"])])
    ELSE
      LET f2 == IF "exam_name" \in frame.cols
                THEN with_column(frame, "exam_year", [i \in DOMAIN frame.rows |-> LET r == frame.rows[i] IN ExtractYear(CastUtf8(r["exam_name"]))])
                ELSE frame
          f3 == IF YearStillMissing(f2) /\ "exam_month" \in f2.cols
                THEN with_column(f2, "exam_year", [i \in DOMAIN f2.rows |-> LET r == f2.rows[i] IN ExtractYear(CastUtf8(r["exam_month"]))])
                ELSE f2
          f4 == IF YearStillMissing(f3) THEN YearFromYearLike(f3) ELSE f3
          f5 == IF YearStillMissing(f4) THEN YearFromText(f4) ELSE f4
      IN  IF "exam_year" \notin f5.cols
          THEN with_column(f5, "exam_year", [i \in DOMAIN f5.rows |-> LET r == f5.rows[i] IN Null])
          ELSE f5

EnsureSemester(t) ==
    IF "semester" \in t.cols THEN t
    ELSE IF "exam_name" \in t.cols
         THEN with_column(t, "semester", [i \in DOMAIN t.rows |-> LET r == t.rows[i] IN ExtractSemester(CastUtf8(r["exam_name"]))])
         ELSE with_column(t, "semester", [i \in DOMAIN t.rows |-> LET r == t.rows[i] IN Null])

(* lines 216-224: every theory/practical "internal" column becomes Float64 *)
(* with its nulls, and the texts that are no number, replaced by 0.0       *)
ZeroFillInternal(t) ==
    [cols |-> t.cols,
     rows |-> [i \in 1..Len(t.rows) |->
                 [c \in t.cols |->
                    IF c \in theory_cols \cup practical_cols
                    THEN fill_null(CastF64(t.rows[i][c]), F64(0))
                    ELSE t.rows[i][c]]]]

EnsureStrings(t) ==
    [cols |-> t.cols,
     rows |-> [i \in 1..Len(t.rows) |->
                 [c \in t.cols |->
                    IF c \in str_cols THEN CastUtf8(t.rows[i][c]) ELSE t.rows[i][c]]]]

SubjectRaw(c) == strip(CollapseSpace(fill_null(CastUtf8(c), Utf8(<<>>)).s))

SubjectKey(c) ==
    IF SubjectRaw(c) = <<>> THEN Null
    ELSE Utf8(strip(CollapseNonKey(to_uppercase(SubjectRaw(c)))))

NormalizeSubject(t) ==
    IF "subject" \notin t.cols THEN t
    ELSE LET k == with_column(t, "subject_key", [i \in DOMAIN t.rows |-> LET r == t.rows[i] IN SubjectKey(r["subject"])])
         IN  with_column(k, "subject",
                 [i \in DOMAIN k.rows |-> LET r == k.rows[i] IN IF IsNull(r["subject_key"]) THEN Null
                            ELSE Utf8(to_titlecase(r["subject_key"].s))])

_validate_and_process(t) ==
    NormalizeSubject(EnsureStrings(ZeroFillInternal(EnsureSemester(
        _ensure_exam_year(StandardizeColumns(t))))))

---------------------------------------------------------------------------
(* data/loader.py: _add_derived_columns *)

sNotApplicable == <<"n","o","t"," ","a","p","p","l","i","c","a","b","l","e">>

(* str.replace_all(r'(?i)not applicable', '') *)
RECURSIVE RemoveNotApplicable(_)
RemoveNotApplicable(s) ==
    IF s = <<>> THEN <<>>
    ELSE IF Len(s) >= Len(sNotApplicable)
            /\ to_lowercase(SubSeq(s, 1, Len(sNotApplicable))) = sNotApplicable
         THEN RemoveNotApplicable(SubSeq(s, Len(sNotApplicable) + 1, Len(s)))
         ELSE <<s[1]>> \o RemoveNotApplicable(Tail(s))

safe_percentage(c) ==
    LET u == CastUtf8(c)
    IN  IF IsNull(u) THEN Null ELSE CastF64(Utf8(RemoveNotApplicable(u.s)))

(* pl.col(credit).cast(pl.Float64, strict=False) > 0; a null compares false *)
CreditPositive(c) == ~IsNull(CastF64(c)) /\ CastF64(c).v > 0

(* obtained / max * 100.0 when max > 0, else null *)
RatioPct(obt, max) ==
    IF CreditPositive(max)
    THEN (IF IsNull(CastF64(obt)) THEN Null
          ELSE F64((CastF64(obt).v * 10000) \div CastF64(max).v))
    ELSE Null

RECURSIVE SumCells(_, _)
SumCells(r, cs) == IF cs = <<>> THEN 0 ELSE r[cs[1]].v + SumCells(r, Tail(cs))

(* pl.concat_list(cols).list.mean(): the cia columns hold no null here *)
ListMean(r, cs) == F64(SumCells(r, cs) \div Len(cs))

(* a + b on two columns: null when either is null *)
AddCells(a, b) == IF IsNull(a) \/ IsNull(b) THEN Null ELSE F64(a.v + b.v)

cia_theory_cols == {"cia1_theory_internal", "cia2_theory_internal", "cia3_theory_internal"}
cia_prac_cols == {"cia1_practical_internal", "cia2_practical_internal", "cia3_practical_internal"}

DeriveCiaTheory(t) ==
    LET existing == OrderedCols(t, cia_theory_cols)
    IN  IF existing # <<>>
        THEN with_column(t, "cia_theory_avg", [i \in DOMAIN t.rows |-> LET r == t.rows[i] IN ListMean(r, existing)])
        ELSE IF "theory_internal_percentage" \in t.cols /\ "theory_credit" \in t.cols
        THEN with_column(t, "cia_theory_avg",
                 [i \in DOMAIN t.rows |-> LET r == t.rows[i] IN IF CreditPositive(r["theory_credit"])
                            THEN safe_percentage(r["theory_internal_percentage"])
                            ELSE Null])
        ELSE IF "theory_internal_percentage" \in t.cols
        THEN with_column(t, "cia_theory_avg",
                 [i \in DOMAIN t.rows |-> LET r == t.rows[i] IN safe_percentage(r["theory_internal_percentage"])])
        ELSE IF "cia_theory_avg" \in t.cols
        THEN with_column(t, "cia_theory_avg", [i \in DOMAIN t.rows |-> LET r == t.rows[i] IN CastF64(r["cia_theory_avg"])])
        ELSE IF "cia_obtained" \in t.cols /\ "cia_max" \in t.cols
        THEN with_column(t, "cia_theory_avg",
                 [i \in DOMAIN t.rows |-> LET r == t.rows[i] IN RatioPct(r["cia_obtained"], r["cia_max"])])
        ELSE with_column(t, "cia_theory_avg", [i \in DOMAIN t.rows |-> LET r == t.rows[i] IN Null])

DeriveCiaPractical(t) ==
    LET existing == OrderedCols(t, cia_prac_cols)
    IN  IF existing # <<>>
        THEN with_column(t, "cia_practical_avg", [i \in DOMAIN t.rows |-> LET r == t.rows[i] IN ListMean(r, existing)])
        ELSE IF "practical_internal_percentage" \in t.cols /\ "practical_credit" \in t.cols
        THEN with_column(t, "cia_practical_avg",
                 [i \in DOMAIN t.rows |-> LET r == t.rows[i] IN IF CreditPositive(r["practical_credit"])
                            THEN safe_percentage(r["practical_internal_percentage"])
                            ELSE Null])
        ELSE IF "practical_internal_percentage" \in t.cols
        THEN with_column(t, "cia_practical_avg",
                 [i \in DOMAIN t.rows |-> LET r == t.rows[i] IN safe_percentage(r["practical_internal_percentage"])])
        ELSE IF "cia_practical_avg" \in t.cols
        THEN with_column(t, "cia_practical_avg", [i \in DOMAIN t.rows |-> LET r == t.rows[i] IN CastF64(r["cia_practical_avg"])])
        ELSE with_column(t, "cia_practical_avg", [i \in DOMAIN t.rows |-> LET r == t.rows[i] IN Null])

DeriveEseTheory(t) ==
    IF "ese_theory_internal" \in t.cols
    THEN with_column(t, "ese_theory_internal", [i \in DOMAIN t.rows |-> LET r == t.rows[i] IN CastF64(r["ese_theory_internal"])])
    ELSE IF "theory_ese_percentage" \in t.cols /\ "theory_credit" \in t.cols
    THEN with_column(t, "ese_theory_internal",
             [i \in DOMAIN t.rows |-> LET r == t.rows[i] IN IF CreditPositive(r["theory_credit"])
                        THEN safe_percentage(r["theory_ese_percentage"])
                        ELSE Null])
    ELSE IF "theory_ese_percentage" \in t.cols
    THEN with_column(t, "ese_theory_internal",
             [i \in DOMAIN t.rows |-> LET r == t.rows[i] IN safe_percentage(r["theory_ese_percentage"])])
    ELSE IF "ese_obtainded" \in t.cols /\ "ese_max" \in t.cols
    THEN with_column(t, "ese_theory_internal",
             [i \in DOMAIN t.rows |-> LET r == t.rows[i] IN RatioPct(r["ese_obtainded"], r["ese_max"])])
    ELSE with_column(t, "ese_theory_internal", [i \in DOMAIN t.rows |-> LET r == t.rows[i] IN Null])

DeriveEsePractical(t) ==
    IF "ese_practical_internal" \in t.cols
    THEN with_column(t, "ese_practical_internal",
             [i \in DOMAIN t.rows |-> LET r == t.rows[i] IN CastF64(r["ese_practical_internal"])])
    ELSE IF "practical_ese_percentage" \in t.cols /\ "practical_credit" \in t.cols
    THEN with_column(t, "ese_practical_internal",
             [i \in DOMAIN t.rows |-> LET r == t.rows[i] IN IF CreditPositive(r["practical_credit"])
                        THEN safe_percentage(r["practical_ese_percentage"])
                        ELSE Null])
    ELSE IF "practical_ese_percentage" \in t.cols
    THEN with_column(t, "ese_practical_internal",
             [i \in DOMAIN t.rows |-> LET r == t.rows[i] IN safe_percentage(r["practical_ese_percentage"])])
    ELSE with_column(t, "ese_practical_internal", [i \in DOMAIN t.rows |-> LET r == t.rows[i] IN Null])

DeriveTotals(t) ==
    LET a == IF "total_theory_marks" \in t.cols
             THEN with_column(t, "total_theory_marks",
                      [i \in DOMAIN t.rows |-> LET r == t.rows[i] IN CastF64(r["total_theory_marks"])])
             ELSE with_column(t, "total_theory_marks",
                      [i \in DOMAIN t.rows |-> LET r == t.rows[i] IN AddCells(r["cia_theory_avg"], r["ese_theory_internal"])])
    IN  IF "total_practical_marks" \in a.cols
        THEN with_column(a, "total_practical_marks",
                 [i \in DOMAIN a.rows |-> LET r == a.rows[i] IN CastF64(r["total_practical_marks"])])
        ELSE with_column(a, "total_practical_marks",
                 [i \in DOMAIN a.rows |-> LET r == a.rows[i] IN AddCells(r["cia_practical_avg"], r["ese_practical_internal"])])

(* credit as a weight: null counts as 1.0, and so does a missing column *)
CreditWeight(t, r, c) == IF c \in t.cols THEN fill_null(CastF64(r[c]), F64(100)).v ELSE 100

DeriveWeighted(t) ==
    with_column(t, "weighted_total",
        [i \in DOMAIN t.rows |-> LET r == t.rows[i] IN F64((fill_null(r["total_theory_marks"], F64(0)).v
                            * CreditWeight(t, r, "theory_credit")) \div 100
                       + (fill_null(r["total_practical_marks"], F64(0)).v
                            * CreditWeight(t, r, "practical_credit")) \div 100)])

_add_derived_columns(t) ==
    DeriveWeighted(DeriveTotals(DeriveEsePractical(DeriveEseTheory(
        DeriveCiaPractical(DeriveCiaTheory(t))))))

---------------------------------------------------------------------------
(* data/loader.py: load_data and _create_sample_data *)

SampleRecords == 1

sST == <<"S","T","0">>
sMathematics == <<"M","a","t","h","e","m","a","t","i","c","s">>
sCommerce == <<"C","O","M","M","E","R","C","E">>
sBSc == <<"B","S","c">>
sFail == <<"F","a","i","l">>
sPass == <<"P","a","s","s">>
sDistinction == <<"D","i","s","t","i","n","c","t","i","o","n">>

SampleCols == {"student_id", "subject", "department", "exam_year", "semester",
               "cia_theory_avg", "ese_theory_internal", "total_theory_marks",
               "student_name", "course_name", "performance"}

(* one random record: its performance comes from total_theory_marks alone *)
SampleRow(marks) ==
    [c \in SampleCols |->
        CASE c = "student_id" -> Utf8(sST)
          [] c = "subject" -> Utf8(sMathematics)
          [] c = "department" -> Utf8(sCommerce)
          [] c = "exam_year" -> I64(2019)
          [] c = "semester" -> I64(1)
          [] c = "cia_theory_avg" -> F64(1000)
          [] c = "ese_theory_internal" -> F64(2000)
          [] c = "total_theory_marks" -> F64(marks)
          [] c = "student_name" -> Utf8(sST)
          [] c = "course_name" -> Utf8(sBSc)
          [] OTHER -> IF marks >= 8500 THEN Utf8(sDistinction)
                      ELSE IF marks >= 5000 THEN Utf8(sPass) ELSE Utf8(sFail)]

(* the tables np.random can produce *)
_create_sample_data ==
    {[cols |-> SampleCols, rows |-> rs] :
        rs \in [1..SampleRecords -> {SampleRow(m) : m \in {3000, 9000}}]}

(* the columns the summary printed by load_data (verbose) reads *)
SummaryCols == {"student_id", "department", "subject", "exam_year"}

Processed(src) == _add_derived_columns(_validate_and_process(src))

(* the try block of load_data raises when the summary reads a missing column *)
LoadRaises(src) == ~(SummaryCols \subseteq Processed(src).cols)

(* the tables load_data can return for the file src *)
load_data(src) == IF LoadRaises(src) THEN _create_sample_data ELSE {Processed(src)}

---------------------------------------------------------------------------
(* data/processor.py: add_performance_column *)

DISTINCTION_TOTAL == 8000

sfail == <<"f","a","i","l">>
spass == <<"p","a","s","s">>
ssus == <<"s","u","s">>
snot == <<"n","o","t">>
sapplicable == <<"a","p","p","l","i","c","a","b","l","e">>
sna == <<"n","a">>

result_columns == <<"theory_result", "theory_internal_result",
                    "practical_result", "practical_internal_result">>

ClassifyCols == {"pass_fail", "theory_percentage", "practical_percentage"}

(* cast(pl.Utf8, strict=False).fill_null("").str.to_lowercase() *)
pass_fail_norm(c) == to_lowercase(fill_null(CastUtf8(c), Utf8(<<>>)).s)

(* theory_percentage + practical_percentage, each cast to Float64, null as 0 *)
total_pct(r) ==
    fill_null(CastF64(r["theory_percentage"]), F64(0)).v
      + fill_null(CastF64(r["practical_percentage"]), F64(0)).v

(* the threshold tested before the fail override *)
base_expr_distinction_first(r) ==
    IF total_pct(r) >= DISTINCTION_TOTAL THEN Utf8(sDistinction)
    ELSE IF pass_fail_norm(r["pass_fail"]) = sfail THEN Utf8(sFail)
    ELSE IF pass_fail_norm(r["pass_fail"]) = spass THEN Utf8(sPass)
    ELSE Null

(* gt(80) for ge(80) *)
base_expr_gt(r) ==
    IF pass_fail_norm(r["pass_fail"]) = sfail THEN Utf8(sFail)
    ELSE IF total_pct(r) > DISTINCTION_TOTAL THEN Utf8(sDistinction)
    ELSE IF pass_fail_norm(r["pass_fail"]) = spass THEN Utf8(sPass)
    ELSE Null

(* "pass" compared without lower-casing *)
base_expr_case(r) ==
    IF pass_fail_norm(r["pass_fail"]) = sfail THEN Utf8(sFail)
    ELSE IF total_pct(r) >= DISTINCTION_TOTAL THEN Utf8(sDistinction)
    ELSE IF fill_null(CastUtf8(r["pass_fail"]), Utf8(<<>>)).s = spass THEN Utf8(sPass)
    ELSE Null

base_expr(r) ==
    IF pass_fail_norm(r["pass_fail"]) = sfail THEN Utf8(sFail)
    ELSE IF total_pct(r) >= DISTINCTION_TOTAL THEN Utf8(sDistinction)
    ELSE IF pass_fail_norm(r["pass_fail"]) = spass THEN Utf8(sPass)
    ELSE Null

(* str.contains("(?i)not\\s*applicable|^na$") on the text of the cell *)
na_check(c) ==
    LET l == to_lowercase(fill_null(CastUtf8(c), Utf8(<<>>)).s)
    IN  \/ l = sna
        \/ \E i \in 1..Len(l), j \in 1..Len(l) :
              /\ i + 3 <= j
              /\ j + 9 <= Len(l)
              /\ SubSeq(l, i, i + 2) = snot
              /\ AllSpace(l, i + 3, j - 1)
              /\ SubSeq(l, j, j + 9) = sapplicable

(* fill_null("").str.contains("(?i)(fail|sus)"); a column that is not text  *)
(* is brought to text by the fill with a text literal                       *)
fail_check(c) ==
    LET l == to_lowercase(fill_null(CastUtf8(c), Utf8(<<>>)).s)
    IN  Contains(l, sfail) \/ Contains(l, ssus)

(* a chain that forgets the earlier columns: otherwise(base_expr) *)
RECURSIVE final_expr_reset(_, _, _)
final_expr_reset(t, r, k) ==
    IF k = 0 THEN base_expr(r)
    ELSE IF result_columns[k] \in t.cols
         THEN (IF ~na_check(r[result_columns[k]]) /\ fail_check(r[result_columns[k]])
               THEN Utf8(sFail) ELSE base_expr(r))
         ELSE final_expr_reset(t, r, k - 1)

(* the expression after the first k result columns: each column present in *)
(* the table wraps the expression built so far                             *)
RECURSIVE final_expr(_, _, _)
final_expr(t, r, k) ==
    IF k = 0 THEN base_expr(r)
    ELSE IF result_columns[k] \in t.cols
         THEN (IF ~na_check(r[result_columns[k]]) /\ fail_check(r[result_columns[k]])
               THEN Utf8(sFail) ELSE final_expr(t, r, k - 1))
         ELSE final_expr(t, r, k - 1)

(* pl.col of a column the table does not have *)
ClassifyRaises(t) == ~(ClassifyCols \subseteq t.cols)

(* the unclassified records dropped from the table *)
add_performance_column_drop(t) ==
    LET w == with_column(t, "performance", [i \in DOMAIN t.rows |-> LET r == t.rows[i] IN final_expr(t, r, Len(result_columns))])
    IN  filter(w, [i \in DOMAIN w.rows |-> LET r == w.rows[i] IN ~IsNull(r["performance"])])

add_performance_column(t) ==
    with_column(t, "performance", [i \in DOMAIN t.rows |-> LET r == t.rows[i] IN final_expr(t, r, Len(result_columns))])

---------------------------------------------------------------------------
(* api/dependencies.py: get_dataframe, step by step *)

LoadData ==
    /\ pc = "file"
    /\ \E d \in load_data(source) : df' = d
    /\ pc' = "loaded"
    /\ UNCHANGED <<source, resp, serving>>

AddPerformanceColumn ==
    /\ pc = "loaded"
    /\ IF ClassifyRaises(df)
       THEN pc' = "failed" /\ df' = df
       ELSE pc' = "ready" /\ df' = add_performance_column(df)
    /\ UNCHANGED <<source, resp, serving>>

NextBuild == LoadData \/ AddPerformanceColumn

---------------------------------------------------------------------------
(* Source files *)

MaxClassifyRows == 1

s1 == <<"1">>
s2 == <<"2">>
sMath == <<"m","a","t","h">>
sDeptA == <<"A">>
sDeptB == <<"B">>
sGradeA == <<"A">>
sFAIL == <<"F","A","I","L">>
sAbsent == <<"A","b","s","e","n","t">>
sSuspended == <<"S","u","s","p","e","n","d","e","d">>
sNotApplicableT == <<"N","o","t"," ","A","p","p","l","i","c","a","b","l","e">>

SeqsUpTo(S, n) == UNION {[1..k -> S] : k \in 0..n}

IdCols == {"student_id", "subject", "department", "exam_year", "grade"}

(* the cells of the identifying columns of a record *)
IdCell(c, id, dept, year) ==
    CASE c = "student_id" -> id
      [] c = "subject" -> Utf8(sMath)
      [] c = "department" -> dept
      [] c = "exam_year" -> year
      [] OTHER -> Utf8(sGradeA)

ClassifyRow(cols, pf, th, pr, tr, tir, prr, pir) ==
    [c \in cols |->
        CASE c = "pass_fail" -> pf
          [] c = "theory_percentage" -> th
          [] c = "practical_percentage" -> pr
          [] c = "theory_result" -> tr
          [] c = "theory_internal_result" -> tir
          [] c = "practical_result" -> prr
          [] c = "practical_internal_result" -> pir
          [] OTHER -> IdCell(c, Utf8(s1), Utf8(sDeptA), I64(2020))]

PassFailCells == {Utf8(sPass), Utf8(sFAIL), Utf8(sAbsent), Null}
TheoryPctCells == {Null, F64(3999), F64(4000), F64(5500)}
PracticalPctCells == {Null, F64(4000)}

(* files with the two external result columns, and files with all four *)
ClassifyRows2 ==
    {ClassifyRow(IdCols \cup ClassifyCols \cup {"theory_result", "practical_result"},
                 pf, th, pr, tr, Null, prr, Null) :
        pf \in PassFailCells, th \in TheoryPctCells, pr \in PracticalPctCells,
        tr \in {Utf8(sPass), Utf8(sFail)},
        prr \in {Utf8(sNotApplicableT), Utf8(sSuspended)}}

ClassifyRows4 ==
    {ClassifyRow(IdCols \cup ClassifyCols \cup {"theory_result", "theory_internal_result",
                                               "practical_result", "practical_internal_result"},
                 pf, th, pr, Utf8(sPass), tir, Utf8(sNotApplicableT), Utf8(sPass)) :
        pf \in PassFailCells, th \in TheoryPctCells, pr \in PracticalPctCells,
        tir \in {Utf8(sPass), Utf8(sFail)}}

TableOf(rows) ==
    [cols |-> IF rows = <<>> THEN IdCols \cup ClassifyCols ELSE DOMAIN rows[1],
     rows |-> rows]

ClassifySources ==
    {TableOf(rs) : rs \in SeqsUpTo(ClassifyRows2, MaxClassifyRows)
                          \cup SeqsUpTo(ClassifyRows4, MaxClassifyRows)}

InitClassify ==
    /\ source \in ClassifySources
    /\ df = EmptyTable
    /\ pc = "file"
    /\ resp = [handler |-> "none", request |-> <<>>, status |-> "none",
               error_code |-> "none", data |-> <<>>]
    /\ NotServing

SpecClassify == InitClassify /\ [][NextBuild]_vars

---------------------------------------------------------------------------
(* Performance classification: C1 .. C5 *)

Classified == pc = "ready"

Perf(i) == df.rows[i]["performance"]

(* the combined percentage of record i of the file, a null counting as 0 *)
SrcPct(c) == IF IsNull(CastF64(c)) THEN 0 ELSE CastF64(c).v
SrcTotal(i) ==
    SrcPct(source.rows[i]["theory_percentage"]) + SrcPct(source.rows[i]["practical_percentage"])

(* pass_fail of record i of the file, lower-cased, "" when it is null *)
SrcPassFail(i) ==
    IF IsNull(source.rows[i]["pass_fail"]) THEN <<>>
    ELSE to_lowercase(CastUtf8(source.rows[i]["pass_fail"]).s)

(* C1: a record whose pass_fail is "fail" in any letter case is classified  *)
(* Fail, whatever its percentages are.                                     *)
C1_FailOverridesDistinction ==
    Classified =>
        \A i \in 1..Len(source.rows) : SrcPassFail(i) = sfail => Perf(i) = Utf8(sFail)

C1_Witness ==
    /\ Classified
    /\ \E i \in 1..Len(source.rows) :
          /\ source.rows[i]["pass_fail"] = Utf8(sFAIL)
          /\ SrcTotal(i) = 9500
          /\ Perf(i) = Utf8(sFail)

(* a result field of the file that reads as a failure or a suspension *)
FieldFails(c) ==
    /\ c.t = "str"
    /\ Contains(to_lowercase(c.s), sfail) \/ Contains(to_lowercase(c.s), ssus)
    /\ ~Contains(to_lowercase(c.s), sapplicable)

(* C2: a record of the file with a result field that indicates failure or  *)
(* suspension is classified Fail in the table built from the file.         *)
C2_ResultFailForcesFail ==
    Classified =>
        \A i \in 1..Len(source.rows) :
            (\E k \in DOMAIN result_columns :
                /\ result_columns[k] \in source.cols
                /\ FieldFails(source.rows[i][result_columns[k]]))
            => Perf(i) = Utf8(sFail)

(* C3: Distinction exactly when the record is not Fail and its combined    *)
(* percentage is at least 80, a null percentage counting as 0.             *)
C3_DistinctionIffThreshold ==
    Classified =>
        \A i \in 1..Len(source.rows) :
            (Perf(i) = Utf8(sDistinction)) <=> (Perf(i) # Utf8(sFail) /\ SrcTotal(i) >= 8000)

C3_Witness ==
    /\ Classified
    /\ \E i \in 1..Len(source.rows) :
          /\ SrcTotal(i) = 8000
          /\ IsNull(source.rows[i]["pass_fail"])
          /\ Perf(i) = Utf8(sDistinction)

(* C4: Pass exactly when the record is not Fail, its combined percentage   *)
(* is below 80 and pass_fail is "pass" in any letter case.                 *)
C4_PassIff ==
    Classified =>
        \A i \in 1..Len(source.rows) :
            (Perf(i) = Utf8(sPass))
                <=> (Perf(i) # Utf8(sFail) /\ SrcTotal(i) < 8000 /\ SrcPassFail(i) = spass)

C4_Witness ==
    /\ Classified
    /\ \E i \in 1..Len(source.rows) :
          /\ source.rows[i]["pass_fail"] = Utf8(sPass)
          /\ SrcTotal(i) = 7999
          /\ Perf(i) = Utf8(sPass)

---------------------------------------------------------------------------
(* utils/calculations.py: rates and grouped statistics *)

(* count / total * 100 kept exact; d = 0 records a division by zero *)
Div(count, total) == [n |-> count * 100, d |-> total]
ZeroRate == [n |-> 0, d |-> 1]
Raised(rate) == rate.d = 0

(* round(rate, 2) in hundredths, ties to even *)
Round2(rate) ==
    LET q == (rate.n * 100) \div rate.d
        rem == (rate.n * 100) % rate.d
    IN  IF 2 * rem > rate.d THEN q + 1
        ELSE IF 2 * rem = rate.d THEN q + (q % 2)
        ELSE q

pass_count(rows) ==
    Cardinality({i \in DOMAIN rows : pass_fail_norm(rows[i]["pass_fail"]) = spass})
fail_count(rows) ==
    Cardinality({i \in DOMAIN rows : pass_fail_norm(rows[i]["pass_fail"]) = sfail})
dist_count(rows) ==
    Cardinality({i \in DOMAIN rows : rows[i]["performance"] = Utf8(sDistinction)})
n_unique(rows, c) == Cardinality({rows[i][c] : i \in DOMAIN rows})

(* no early return and no guard: the division is done whatever the total *)
calculate_rates_unguarded(data) ==
    [pass_rate |-> Div(pass_count(data.rows), Height(data)),
     dist_rate |-> Div(dist_count(data.rows), Height(data)),
     fail_rate |-> Div(fail_count(data.rows), Height(data)),
     unique_students |-> n_unique(data.rows, "student_id"),
     total_exams |-> Height(data)]

calculate_rates(data) ==
    IF Height(data) = 0
    THEN [pass_rate |-> ZeroRate, dist_rate |-> ZeroRate, fail_rate |-> ZeroRate,
          unique_students |-> 0, total_exams |-> 0]
    ELSE LET total_exams == Height(data)
         IN  [pass_rate |-> IF total_exams > 0
                            THEN Div(pass_count(data.rows), total_exams) ELSE ZeroRate,
              dist_rate |-> IF total_exams > 0
                            THEN Div(dist_count(data.rows), total_exams) ELSE ZeroRate,
              fail_rate |-> IF total_exams > 0
                            THEN Div(fail_count(data.rows), total_exams) ELSE ZeroRate,
              unique_students |-> n_unique(data.rows, "student_id"),
              total_exams |-> total_exams]

(* the rows of a group: a null key forms a group of its own *)
(* a null key put in no group *)
GroupRows_drop_null(t, c, k) ==
    IF IsNull(k) THEN <<>>
    ELSE SelectSeq2(t.rows, [i \in DOMAIN t.rows |-> t.rows[i][c] = k])
GroupRows(t, c, k) == SelectSeq2(t.rows, [i \in DOMAIN t.rows |-> t.rows[i][c] = k])
GroupKeys(t, c) == {t.rows[i][c] : i \in DOMAIN t.rows}

(* sort('exam_year'): nulls first, then ascending *)
YearBefore(a, b) == a # b /\ (IsNull(a) \/ (~IsNull(b) /\ a.v < b.v))

RECURSIVE SortYears(_)
SortYears(ks) ==
    IF ks = {} THEN <<>>
    ELSE LET k == CHOOSE x \in ks : \A y \in ks \ {x} : YearBefore(x, y)
         IN  <<k>> \o SortYears(ks \ {k})

YearGroup(t, k) ==
    LET g == GroupRows(t, "exam_year", k)
    IN  [exam_year |-> CastI32(k),
         unique_students |-> n_unique(g, "student_id"),
         total_exams |-> Len(g),
         pass_count |-> pass_count(g),
         dist_count |-> dist_count(g),
         fail_count |-> fail_count(g),
         pass_rate |-> Div(pass_count(g), Len(g)),
         dist_rate |-> Div(dist_count(g), Len(g)),
         fail_rate |-> Div(fail_count(g), Len(g))]

(* every rate divided by the size of the whole table *)
get_yearly_data_whole(t) ==
    LET ks == SortYears(GroupKeys(t, "exam_year"))
    IN  [j \in DOMAIN ks |->
            [YearGroup(t, ks[j]) EXCEPT
                !.pass_rate = Div(YearGroup(t, ks[j]).pass_count, Height(t)),
                !.fail_rate = Div(YearGroup(t, ks[j]).fail_count, Height(t))]]

get_yearly_data(t) ==
    LET ks == SortYears(GroupKeys(t, "exam_year"))
    IN  [j \in DOMAIN ks |-> YearGroup(t, ks[j])]

(* the pass count taken from the derived performance column *)
DeptGroup_from_performance(t, k) ==
    LET g == GroupRows(t, "department", k)
        passed == Cardinality({i \in DOMAIN g : g[i]["performance"] = Utf8(sPass)})
    IN  [department |-> k,
         students |-> n_unique(g, "student_id"),
         exams |-> Len(g),
         pass_count |-> passed,
         pass_rate |-> Div(passed, Len(g))]

DeptGroup(t, k) ==
    LET g == GroupRows(t, "department", k)
    IN  [department |-> k,
         students |-> n_unique(g, "student_id"),
         exams |-> Len(g),
         pass_count |-> pass_count(g),
         pass_rate |-> Div(pass_count(g), Len(g))]

RateLess(a, b) == a.n * b.d < b.n * a.d

Perms(S) ==
    {f \in [1..Cardinality(S) -> S] : \A i, j \in 1..Cardinality(S) : i # j => f[i] # f[j]}

(* group_by gives the groups in no particular order and sort('pass_rate')  *)
(* orders them by rate: every ascending arrangement is a possible result   *)
get_department_stats(t) ==
    {f \in Perms({DeptGroup(t, k) : k \in GroupKeys(t, "department")}) :
        \A i, j \in DOMAIN f : i < j => ~RateLess(f[j].pass_rate, f[i].pass_rate)}

---------------------------------------------------------------------------
(* api/routes: responses *)

NoResponse ==
    [handler |-> "none", request |-> <<>>, status |-> "none", error_code |-> "none",
     data |-> <<>>]

Success(h, req, data) ==
    [handler |-> h, request |-> req, status |-> "success", error_code |-> "none",
     data |-> data]

Error(h, req, code) ==
    [handler |-> h, request |-> req, status |-> "error", error_code |-> code,
     data |-> <<>>]

(* df.filter(pl.col(c) == v): a null cell never matches *)
FilterEq(t, c, v) == filter(t, [i \in DOMAIN t.rows |-> t.rows[i][c] = v])

(* "if value:" on an optional request value *)
Truthy(v) == ~IsNull(v) /\ v # I64(0) /\ v # Utf8(<<>>)

(* int(x) of a value read from a row *)
IntRaises(c) == IsNull(c) \/ (c.t = "str" /\ ~AllDigits(c.s))

---------------------------------------------------------------------------
(* api/routes/kpis.py *)

get_overall_kpis(t, year, department) ==
    LET req == [year |-> year, department |-> department]
        f1 == IF Truthy(year) THEN FilterEq(t, "exam_year", year) ELSE t
        f2 == IF Truthy(department) THEN FilterEq(f1, "department", department) ELSE f1
        r == calculate_rates(f2)
    IN  IF Raised(r.pass_rate) \/ Raised(r.dist_rate) \/ Raised(r.fail_rate)
        THEN Error("get_overall_kpis", req, "ERR_KPI_001")
        ELSE Success("get_overall_kpis", req,
                 [pass_rate |-> Round2(r.pass_rate),
                  fail_rate |-> Round2(r.fail_rate),
                  distinction_rate |-> Round2(r.dist_rate),
                  unique_students |-> r.unique_students,
                  total_exams |-> r.total_exams])

get_yearly_kpis(t, department) ==
    LET req == [department |-> department]
        f == IF Truthy(department) THEN FilterEq(t, "department", department) ELSE t
        yearly == get_yearly_data(f)
    IN  IF \E j \in DOMAIN yearly : IntRaises(yearly[j].exam_year)
        THEN Error("get_yearly_kpis", req, "ERR_KPI_002")
        ELSE Success("get_yearly_kpis", req,
                 [j \in DOMAIN yearly |->
                    [exam_year |-> yearly[j].exam_year.v,
                     unique_students |-> yearly[j].unique_students,
                     total_exams |-> yearly[j].total_exams,
                     pass_count |-> yearly[j].pass_count,
                     fail_count |-> yearly[j].fail_count,
                     dist_count |-> yearly[j].dist_count,
                     pass_rate |-> Round2(yearly[j].pass_rate),
                     fail_rate |-> Round2(yearly[j].fail_rate),
                     dist_rate |-> Round2(yearly[j].dist_rate)]])

DeptKey(g, sort_by) ==
    IF sort_by = "exam_count" THEN [n |-> g.exams, d |-> 1]
    ELSE IF sort_by = "students" THEN [n |-> g.students, d |-> 1]
    ELSE g.pass_rate

(* the responses get_department_kpis can give: the statistics sorted by    *)
(* the key, descending, cut to limit rows and ranked from 1                *)
get_department_kpis(t, limit, sort_by) ==
    LET req == [limit |-> limit, sort_by |-> sort_by]
    IN  {Success("get_department_kpis", req,
             [j \in 1..(IF Len(f) < limit THEN Len(f) ELSE limit) |->
                [rank |-> j,
                 department |-> f[j].department,
                 students |-> f[j].students,
                 exams |-> f[j].exams,
                 pass_count |-> f[j].pass_count,
                 pass_rate |-> Round2(f[j].pass_rate)]]) :
         f \in {g \in UNION {Perms({s[j] : j \in DOMAIN s}) : s \in get_department_stats(t)} :
                   \A i, j \in DOMAIN g :
                       i < j => ~RateLess(DeptKey(g[i], sort_by), DeptKey(g[j], sort_by))}}

---------------------------------------------------------------------------
(* api/routes/analytics.py *)

FilterLimitDefault == 100
DeptLimitDefault == 70

FilterRequest(year, department, subject, pass_fail, performance, limit, offset) ==
    [year |-> year, department |-> department, subject |-> subject,
     pass_fail |-> pass_fail, performance |-> performance,
     limit |-> limit, offset |-> offset]

(* DataFrame.slice(offset, limit) *)
slice_no_offset(rows, offset, limit) ==
    SubSeq(rows, 1, IF limit < Len(rows) THEN limit ELSE Len(rows))
slice(rows, offset, limit) ==
    IF offset >= Len(rows) THEN <<>>
    ELSE SubSeq(rows, offset + 1,
                IF offset + limit < Len(rows) THEN offset + limit ELSE Len(rows))

FilterSelect == {"student_id", "subject", "pass_fail", "performance", "grade", "exam_year"}

ApplyFilters(t, request) ==
    LET f1 == IF Truthy(request.year) THEN FilterEq(t, "exam_year", request.year) ELSE t
        f2 == IF Truthy(request.department)
              THEN FilterEq(f1, "department", request.department) ELSE f1
        f3 == IF Truthy(request.subject)
              THEN FilterEq(f2, "subject", request.subject) ELSE f2
        f4 == IF Truthy(request.pass_fail)
              THEN FilterEq(f3, "pass_fail", request.pass_fail) ELSE f3
    IN  IF Truthy(request.performance)
        THEN FilterEq(f4, "performance", request.performance) ELSE f4

FilterPassRate(data) ==
    IF Height(data) > 0 THEN Div(pass_count(data.rows), Height(data)) ELSE ZeroRate

advanced_filter(t, request) ==
    LET data == ApplyFilters(t, request)
        total_records == Height(data)
        pass_rate == FilterPassRate(data)
        results == slice(data.rows, request.offset, request.limit)
    IN  IF Raised(pass_rate) \/ ~(FilterSelect \subseteq t.cols)
           \/ \E j \in DOMAIN results :
                 IntRaises(results[j]["student_id"]) \/ IntRaises(results[j]["exam_year"])
        THEN Error("advanced_filter", request, "ERR_ANA_001")
        ELSE Success("advanced_filter", request,
                 [total_records |-> total_records,
                  pass_count |-> pass_count(data.rows),
                  fail_count |-> fail_count(data.rows),
                  distinction_count |-> dist_count(data.rows),
                  pass_rate |-> Round2(pass_rate),
                  records |-> [j \in DOMAIN results |->
                                 [student_id |-> CastI32(results[j]["student_id"]).v,
                                  subject |-> results[j]["subject"],
                                  pass_fail |-> results[j]["pass_fail"],
                                  performance |-> results[j]["performance"],
                                  grade |-> results[j]["grade"],
                                  year |-> CastI32(results[j]["exam_year"]).v]],
                  limit |-> request.limit,
                  offset |-> request.offset])

---------------------------------------------------------------------------
(* requests *)

YearParams == {Null, I64(2019), I64(2020)}
DeptParams == {Null, Utf8(sDeptB)}
SortParams == {"pass_rate", "exam_count", "students"}
LimitParams == {DeptLimitDefault, 1}

FilterRequests ==
    {FilterRequest(Null, Null, Null, Null, Null, FilterLimitDefault, 0),
     FilterRequest(I64(2019), Null, Null, Null, Null, FilterLimitDefault, 0),
     FilterRequest(Null, Utf8(sDeptB), Null, Null, Null, FilterLimitDefault, 0),
     FilterRequest(Null, Null, Null, Utf8(sPass), Null, 1, 1),
     FilterRequest(I64(2021), Null, Null, Null, Utf8(sDistinction), 1, 0)}

GetOverallKpis ==
    /\ pc = "ready"
    /\ \E year \in YearParams, department \in DeptParams :
          resp' = get_overall_kpis(df, year, department)
    /\ UNCHANGED <<source, df, pc, serving>>

GetYearlyKpis ==
    /\ pc = "ready"
    /\ \E department \in DeptParams : resp' = get_yearly_kpis(df, department)
    /\ UNCHANGED <<source, df, pc, serving>>

GetDepartmentKpis ==
    /\ pc = "ready"
    /\ \E limit \in LimitParams, sort_by \in SortParams :
          resp' \in get_department_kpis(df, limit, sort_by)
    /\ UNCHANGED <<source, df, pc, serving>>

AdvancedFilter ==
    /\ pc = "ready"
    /\ \E request \in FilterRequests : resp' = advanced_filter(df, request)
    /\ UNCHANGED <<source, df, pc, serving>>

---------------------------------------------------------------------------
(* the result files served by the API *)

MaxRows == 3

AggRow(pf, th, pr, year, dept, id) ==
    [c \in IdCols \cup ClassifyCols |->
        CASE c = "pass_fail" -> pf
          [] c = "theory_percentage" -> th
          [] c = "practical_percentage" -> pr
          [] OTHER -> IdCell(c, id, dept, year)]

AggRows ==
    {AggRow(Utf8(sPass), F64(5000), F64(4000), I64(2020), Utf8(sDeptA), I64(1)),
     AggRow(Utf8(sFail), F64(9000), F64(9000), I64(2020), Utf8(sDeptA), I64(2)),
     AggRow(Utf8(spass), F64(3000), Null, I64(2021), Utf8(sDeptB), I64(1)),
     AggRow(Utf8(sAbsent), F64(3000), Null, I64(2021), Utf8(sDeptB), I64(2)),
     AggRow(Null, F64(3000), Null, I64(2021), Utf8(sDeptA), I64(2))}

Init ==
    /\ source \in {TableOf(rows) : rows \in SeqsUpTo(AggRows, MaxRows)}
    /\ df = EmptyTable
    /\ pc = "file"
    /\ resp = NoResponse
    /\ NotServing

Next ==
    \/ LoadData
    \/ AddPerformanceColumn
    \/ GetOverallKpis
    \/ GetYearlyKpis
    \/ GetDepartmentKpis
    \/ AdvancedFilter

Spec == Init /\ [][Next]_vars
---------------------------------------------------------------------------
(* Claims about the aggregated statistics *)

NormText(c) == IF c.t = "str" THEN to_lowercase(c.s) ELSE <<>>
Matches(row, field, v) == IsNull(v) \/ row[field] = v

(* the rows of df an overall-KPI request selects *)
OverallSel ==
    {i \in DOMAIN df.rows :
        /\ Matches(df.rows[i], "exam_year", resp.request.year)
        /\ Matches(df.rows[i], "department", resp.request.department)}

(* the rows of df a filter request selects *)
FilterSel ==
    {i \in DOMAIN df.rows :
        \A f \in {"department", "subject", "pass_fail", "performance"} :
            /\ Matches(df.rows[i], f, resp.request[f])
            /\ Matches(df.rows[i], "exam_year", resp.request.year)}

(* r is count / total * 100 rounded to two decimals, in hundredths *)
IsRounded(r, count, total) ==
    LET e == r * total - count * 10000
    IN  total > 0 /\ (IF e < 0 THEN -e ELSE e) * 2 <= total

CountNorm(sel, text) ==
    Cardinality({i \in sel : NormText(df.rows[i]["pass_fail"]) = text})
CountOther(sel) ==
    Cardinality({i \in sel : NormText(df.rows[i]["pass_fail"]) \notin {spass, sfail}})
CountDistinction(sel) ==
    Cardinality({i \in sel : df.rows[i]["performance"] = Utf8(sDistinction)})

(* C6: a request whose table, whole or filtered, has no record is answered *)
(* successfully with every rate equal to 0: the zero total is never        *)
(* divided by, so no error, null or NaN comes back.                        *)
C6_EmptyTableRatesZero ==
    /\ (resp.handler = "get_overall_kpis" /\ OverallSel = {}) =>
          /\ resp.status = "success"
          /\ resp.data.total_exams = 0
          /\ resp.data.pass_rate = 0
          /\ resp.data.fail_rate = 0
          /\ resp.data.distinction_rate = 0
    /\ (resp.handler = "advanced_filter" /\ FilterSel = {}) =>
          /\ resp.status = "success"
          /\ resp.data.total_records = 0
          /\ resp.data.pass_rate = 0

C6_Witness ==
    /\ resp.handler = "get_overall_kpis"
    /\ df.rows # <<>>
    /\ OverallSel = {}
    /\ resp.status = "success"
    /\ resp.data.pass_rate = 0

(* C7: in every group the aggregation reports, by year or overall, the     *)
(* pass, fail and other counts add up to the group's total, and every rate *)
(* is its count / total * 100 rounded to two decimals.                     *)
YearSel(j) ==
    {i \in DOMAIN df.rows :
        /\ Matches(df.rows[i], "department", resp.request.department)
        /\ df.rows[i]["exam_year"] = I64(resp.data[j].exam_year)}

C7_CountsPartitionAndRates ==
    /\ (resp.handler = "get_yearly_kpis" /\ resp.status = "success") =>
          \A j \in DOMAIN resp.data :
             LET g == resp.data[j]
             IN  /\ g.total_exams = Cardinality(YearSel(j))
                 /\ g.pass_count = CountNorm(YearSel(j), spass)
                 /\ g.fail_count = CountNorm(YearSel(j), sfail)
                 /\ g.pass_count + g.fail_count + CountOther(YearSel(j)) = g.total_exams
                 /\ IsRounded(g.pass_rate, g.pass_count, g.total_exams)
                 /\ IsRounded(g.fail_rate, g.fail_count, g.total_exams)
                 /\ IsRounded(g.dist_rate, g.dist_count, g.total_exams)
    /\ (resp.handler = "get_overall_kpis" /\ resp.status = "success"
          /\ OverallSel # {}) =>
          /\ resp.data.total_exams = Cardinality(OverallSel)
          /\ CountNorm(OverallSel, spass) + CountNorm(OverallSel, sfail)
                + CountOther(OverallSel) = resp.data.total_exams
          /\ IsRounded(resp.data.pass_rate, CountNorm(OverallSel, spass),
                       resp.data.total_exams)
          /\ IsRounded(resp.data.fail_rate, CountNorm(OverallSel, sfail),
                       resp.data.total_exams)
          /\ IsRounded(resp.data.distinction_rate, CountDistinction(OverallSel),
                       resp.data.total_exams)

C7_Witness ==
    /\ resp.handler = "get_yearly_kpis"
    /\ resp.status = "success"
    /\ \E j \in DOMAIN resp.data :
          /\ resp.data[j].total_exams = 3
          /\ resp.data[j].pass_count = 2
          /\ resp.data[j].fail_count = 0
          /\ resp.data[j].pass_rate = 6667

(* C8: a group's pass rate comes from the raw pass_fail field alone: a     *)
(* "pass" record classified Distinction still counts as a pass, while the  *)
(* distinction rate counts only the records classified Distinction; one    *)
(* "Pass" classified Distinction with one "Fail" gives a pass rate of 50.0 *)
DeptSel(k) == {i \in DOMAIN df.rows : df.rows[i]["department"] = k}

TwoRowScenario ==
    /\ Len(df.rows) = 2
    /\ df.rows[1]["department"] = df.rows[2]["department"]
    /\ \E i, j \in 1..2 :
          /\ df.rows[i]["pass_fail"] = Utf8(sPass)
          /\ df.rows[i]["performance"] = Utf8(sDistinction)
          /\ df.rows[j]["pass_fail"] = Utf8(sFail)

C8_PassRateFromPassFailOnly ==
    /\ (resp.handler = "get_department_kpis" /\ resp.status = "success") =>
          /\ \A j \in DOMAIN resp.data :
                LET g == resp.data[j]
                IN  /\ g.exams = Cardinality(DeptSel(g.department))
                    /\ g.pass_count = CountNorm(DeptSel(g.department), spass)
                    /\ IsRounded(g.pass_rate, g.pass_count, g.exams)
          /\ TwoRowScenario => resp.data[1].pass_rate = 5000
    /\ (resp.handler = "get_overall_kpis" /\ resp.status = "success"
          /\ OverallSel # {}) =>
          /\ IsRounded(resp.data.pass_rate, CountNorm(OverallSel, spass),
                       Cardinality(OverallSel))
          /\ IsRounded(resp.data.distinction_rate, CountDistinction(OverallSel),
                       Cardinality(OverallSel))
          /\ (TwoRowScenario /\ Cardinality(OverallSel) = 2) =>
                /\ resp.data.pass_rate = 5000
                /\ resp.data.distinction_rate = 5000

C8_Witness ==
    /\ resp.handler = "get_department_kpis"
    /\ resp.status = "success"
    /\ TwoRowScenario
    /\ Len(resp.data) = 1
    /\ resp.data[1].pass_count = 1
    /\ resp.data[1].pass_rate = 5000

---------------------------------------------------------------------------
(* Result files in the formats the metric derivation reads *)

MaxLoadRows == 1

s55 == <<"5","5">>
NewFormatCols ==
    {"theory_internal_percentage", "theory_ese_percentage",
     "practical_internal_percentage", "practical_ese_percentage",
     "theory_credit", "practical_credit"}
OldFormatCols ==
    {"cia1_theory_internal", "ese_theory_internal",
     "cia1_practical_internal", "ese_practical_internal",
     "theory_credit", "practical_credit"}
NoCreditCols == {"theory_internal_percentage", "theory_ese_percentage"}
TotalCols == {"theory_ese_percentage", "total_theory_marks"}

LoadRow(cols, tip, tep, pip, pep, cia, ese, tc, prc) ==
    [c \in IdCols \cup ClassifyCols \cup cols |->
        CASE c = "theory_internal_percentage" -> tip
          [] c = "theory_ese_percentage" -> tep
          [] c = "practical_internal_percentage" -> pip
          [] c = "practical_ese_percentage" -> pep
          [] c = "cia1_theory_internal" -> cia
          [] c = "cia1_practical_internal" -> cia
          [] c = "ese_theory_internal" -> ese
          [] c = "ese_practical_internal" -> ese
          [] c = "theory_credit" -> tc
          [] c = "practical_credit" -> prc
          [] c = "pass_fail" -> Utf8(sPass)
          [] c = "theory_percentage" -> F64(5500)
          [] c = "practical_percentage" -> Null
          [] c = "total_theory_marks" -> cia
          [] OTHER -> IdCell(c, I64(1), Utf8(sDeptA), I64(2020))]

PctTexts == {Utf8(s55), Utf8(sNotApplicableT), Utf8(sAbsent)}
CreditCells == {I64(0), I64(4)}

NewFormatRows ==
    {LoadRow(NewFormatCols, tip, tep, pip, pip, Null, Null, tc, prc) :
        tip \in PctTexts, tep \in {Utf8(s55), Utf8(sNotApplicableT)},
        pip \in {Utf8(s55), Utf8(sNotApplicableT)},
        tc \in CreditCells, prc \in CreditCells}
OldFormatRows ==
    {LoadRow(OldFormatCols, Null, Null, Null, Null, cia, ese, tc, prc) :
        cia \in {F64(2000), Null}, ese \in {F64(5500), Null},
        tc \in CreditCells, prc \in CreditCells}
NoCreditRows ==
    {LoadRow(NoCreditCols, tip, tep, Null, Null, Null, Null, Null, Null) :
        tip \in PctTexts, tep \in PctTexts}

(* files that bring their own total_theory_marks column *)
TotalRows ==
    {LoadRow(TotalCols, Null, tep, Null, Null, total, Null, Null, Null) :
        tep \in {Utf8(s55), Utf8(sNotApplicableT)}, total \in {F64(7000), Null}}

LoadTableOf(cols, rows) == [cols |-> IdCols \cup ClassifyCols \cup cols, rows |-> rows]

LoadSources ==
    {LoadTableOf(NewFormatCols, rs) : rs \in SeqsUpTo(NewFormatRows, MaxLoadRows)}
    \cup {LoadTableOf(OldFormatCols, rs) : rs \in SeqsUpTo(OldFormatRows, MaxLoadRows)}
    \cup {LoadTableOf(NoCreditCols, rs) : rs \in SeqsUpTo(NoCreditRows, MaxLoadRows)}
    \cup {LoadTableOf(TotalCols, rs) : rs \in SeqsUpTo(TotalRows, MaxLoadRows)}

InitLoad ==
    /\ source \in LoadSources
    /\ df = EmptyTable
    /\ pc = "file"
    /\ resp = NoResponse
    /\ NotServing

SpecLoad == InitLoad /\ [][NextBuild]_vars

---------------------------------------------------------------------------
(* Claims about the derived percentages *)

(* the table was loaded from the file, row for row *)
LoadedFromFile ==
    /\ pc \in {"loaded", "ready"}
    /\ Len(df.rows) = Len(source.rows)
    /\ source.cols \subseteq df.cols

ZeroCredit(i, credit) ==
    credit \in source.cols /\ source.rows[i][credit] = I64(0)

(* C9: a record whose theory_credit (practical_credit) is present and 0    *)
(* has null cia_theory_avg and ese_theory_internal (cia_practical_avg and  *)
(* ese_practical_internal) after loading, whatever the file holds.         *)
C9_ZeroCreditGivesNull ==
    LoadedFromFile =>
        \A i \in DOMAIN df.rows :
            /\ ZeroCredit(i, "theory_credit") =>
                  /\ IsNull(df.rows[i]["cia_theory_avg"])
                  /\ IsNull(df.rows[i]["ese_theory_internal"])
            /\ ZeroCredit(i, "practical_credit") =>
                  /\ IsNull(df.rows[i]["cia_practical_avg"])
                  /\ IsNull(df.rows[i]["ese_practical_internal"])

(* the source column a derived percentage is read from, when the file has  *)
(* no earlier representation of it                                         *)
PctSource(derived) ==
    CASE derived = "cia_theory_avg" ->
            IF source.cols \cap {"cia1_theory_internal", "cia2_theory_internal",
                                 "cia3_theory_internal"} = {}
            THEN "theory_internal_percentage" ELSE "none"
      [] derived = "cia_practical_avg" ->
            IF source.cols \cap {"cia1_practical_internal", "cia2_practical_internal",
                                 "cia3_practical_internal"} = {}
            THEN "practical_internal_percentage" ELSE "none"
      [] derived = "ese_theory_internal" ->
            IF "ese_theory_internal" \notin source.cols
            THEN "theory_ese_percentage" ELSE "none"
      [] OTHER ->
            IF "ese_practical_internal" \notin source.cols
            THEN "practical_ese_percentage" ELSE "none"

DerivedPcts ==
    {"cia_theory_avg", "cia_practical_avg", "ese_theory_internal", "ese_practical_internal"}

(* a text that is no number: the sentinel, or any other word *)
NoNumber(c) == c \in {Utf8(sNotApplicableT), Utf8(sAbsent)}

(* C10: a source percentage holding "Not Applicable", or a text that is no *)
(* number, gives a null derived percentage after _validate_and_process and *)
(* _add_derived_columns: the load does not fail and the value is not 0.    *)
C10_SentinelGivesNull ==
    /\ pc \in {"loaded", "ready"} => Len(df.rows) = Len(source.rows)
    /\ LoadedFromFile =>
          \A i \in DOMAIN df.rows : \A d \in DerivedPcts :
              (PctSource(d) \in source.cols /\ NoNumber(source.rows[i][PctSource(d)]))
                  => IsNull(df.rows[i][d])


(* C11: after loading, total_theory_marks is non-null only when both       *)
(* cia_theory_avg and ese_theory_internal are non-null, and is then their  *)
(* sum; likewise total_practical_marks with the practical percentages.     *)
TotalIsSum(r, total, internal, external) ==
    ~IsNull(r[total]) =>
        /\ ~IsNull(r[internal])
        /\ ~IsNull(r[external])
        /\ r[total] = F64(r[internal].v + r[external].v)

C11_TotalsAreSums ==
    LoadedFromFile =>
        \A i \in DOMAIN df.rows :
            /\ TotalIsSum(df.rows[i], "total_theory_marks",
                          "cia_theory_avg", "ese_theory_internal")
            /\ TotalIsSum(df.rows[i], "total_practical_marks",
                          "cia_practical_avg", "ese_practical_internal")

---------------------------------------------------------------------------
(* api/routes/students.py, departments.py, analytics.py: entity lookups *)

(* round(n / d, 2) of a value kept in hundredths, ties to even *)
RoundDiv(n, d) ==
    LET q == n \div d
        rem == n % d
    IN  IF 2 * rem > d THEN q + 1
        ELSE IF 2 * rem = d THEN q + (q % 2)
        ELSE q

(* Series.mean(): the mean of the non-null values, None when there is none *)
NonNull(rows, c) == {i \in DOMAIN rows : ~IsNull(rows[i][c])}

RECURSIVE SumOver(_, _, _)
SumOver(rows, c, is) ==
    IF is = {} THEN 0
    ELSE LET i == CHOOSE x \in is : TRUE
         IN  rows[i][c].v + SumOver(rows, c, is \ {i})

(* "round(x, 2) if x else None": no mean and a mean of 0 both give None *)
MeanOrNone(rows, c) ==
    IF NonNull(rows, c) = {} \/ SumOver(rows, c, NonNull(rows, c)) = 0 THEN Null
    ELSE F64(RoundDiv(SumOver(rows, c, NonNull(rows, c)), Cardinality(NonNull(rows, c))))

(* pl.col(c) == v with an integer v: on an integer column the rows equal   *)
(* to v match; on a Utf8 column polars refuses the comparison (it raises,  *)
(* or in builds that coerce, no row matches)                               *)
IntCompareOutcomes(t, c) ==
    IF \E i \in DOMAIN t.rows : t.rows[i][c].t = "int" THEN {"compares"}
    ELSE {"raises", "no_match"}

StudentCols == {"student_name", "gender", "nationality", "department", "campus", "exam_year"}

(* the answers get_student_details can give *)
get_student_details(t, student_id) ==
    LET req == [student_id |-> student_id]
        student_df == FilterEq(t, "student_id", I64(student_id))
    IN  IF "student_id" \notin t.cols
        THEN {Error("get_student_details", req, "ERR_STU_002")}
        ELSE {IF o = "raises" THEN Error("get_student_details", req, "ERR_STU_002")
              ELSE IF o = "no_match" \/ Height(student_df) = 0
              THEN Error("get_student_details", req, "ERR_STU_404")
              ELSE IF ~(StudentCols \subseteq t.cols)
              THEN Error("get_student_details", req, "ERR_STU_002")
              ELSE Success("get_student_details", req,
                       [student_id |-> student_id,
                        name |-> student_df.rows[1]["student_name"],
                        department |-> student_df.rows[1]["department"],
                        total_exams |-> Height(student_df),
                        years_active |-> SortYears(GroupKeys(student_df, "exam_year"))]) :
              o \in IntCompareOutcomes(t, "student_id")}

DetailCols ==
    {"student_id", "pass_fail", "performance", "cia_theory_avg", "cia_practical_avg",
     "ese_theory_internal", "ese_practical_internal"}

get_department_details(t, department_name) ==
    LET req == [department_name |-> department_name]
        dept_df == FilterEq(t, "department", department_name)
        total_exams == Height(dept_df)
    IN  IF "department" \notin t.cols
        THEN Error("get_department_details", req, "ERR_DEPT_002")
        ELSE IF total_exams = 0
        THEN Error("get_department_details", req, "ERR_DEPT_404")
        ELSE IF ~(DetailCols \subseteq t.cols)
        THEN Error("get_department_details", req, "ERR_DEPT_002")
        ELSE Success("get_department_details", req,
                 [department |-> department_name,
                  unique_students |-> n_unique(dept_df.rows, "student_id"),
                  total_exams |-> total_exams,
                  pass_count |-> pass_count(dept_df.rows),
                  fail_count |-> fail_count(dept_df.rows),
                  distinction_count |-> dist_count(dept_df.rows),
                  pass_rate |-> Round2(Div(pass_count(dept_df.rows), total_exams)),
                  fail_rate |-> Round2(Div(fail_count(dept_df.rows), total_exams)),
                  distinction_rate |-> Round2(Div(dist_count(dept_df.rows), total_exams)),
                  avg_cia_theory |-> MeanOrNone(dept_df.rows, "cia_theory_avg"),
                  avg_cia_practical |-> MeanOrNone(dept_df.rows, "cia_practical_avg"),
                  avg_ese_theory |-> MeanOrNone(dept_df.rows, "ese_theory_internal"),
                  avg_ese_practical |-> MeanOrNone(dept_df.rows, "ese_practical_internal")])

TrendMetrics == {"pass_rate", "distinction_rate", "exam_count"}

TrendRow(g, metric) ==
    [year |-> g.exam_year.v,
     exam_count |-> g.total_exams,
     pass_rate |-> Round2(g.pass_rate),
     distinction_rate |-> Round2(g.dist_rate),
     value |-> IF metric = "exam_count" THEN g.total_exams
               ELSE IF metric = "pass_rate" THEN Round2(g.pass_rate)
               ELSE Round2(g.dist_rate)]

(* trends[0]['value'] and trends[-1]['value'] *)
first_val_previous(trends) == trends[IF Len(trends) > 1 THEN Len(trends) - 1 ELSE 1].value
first_val(trends) == trends[1].value
last_val(trends) == trends[Len(trends)].value

get_trends(t, entity_type, entity_name, metric) ==
    LET req == [entity_type |-> entity_type, entity_name |-> entity_name, metric |-> metric]
        col_name == IF entity_type = "department" THEN "department" ELSE "subject"
        entity_df == FilterEq(t, col_name, entity_name)
        yearly == get_yearly_data(entity_df)
        trends == [j \in DOMAIN yearly |-> TrendRow(yearly[j], metric)]
    IN  IF col_name \notin t.cols
        THEN Error("get_trends", req, "ERR_ANA_004")
        ELSE IF Height(entity_df) = 0
        THEN Error("get_trends", req, "ERR_ANA_404")
        ELSE IF ~({"pass_fail", "exam_year", "performance"} \subseteq t.cols)
                \/ metric \notin TrendMetrics
                \/ \E j \in DOMAIN yearly : IntRaises(yearly[j].exam_year)
        THEN Error("get_trends", req, "ERR_ANA_004")
        ELSE Success("get_trends", req,
                 [entity |-> entity_name,
                  metric |-> metric,
                  trends |-> trends,
                  trend_direction |->
                      IF Len(trends) > 1
                      THEN (IF last_val(trends) > first_val(trends) THEN "upward"
                            ELSE IF last_val(trends) < first_val(trends) THEN "downward" ELSE "stable")
                      ELSE "stable",
                  trend_change |-> IF Len(trends) > 1 THEN last_val(trends) - first_val(trends) ELSE 0,
                  latest_value |-> last_val(trends),
                  earliest_value |-> first_val(trends)])

---------------------------------------------------------------------------
(* utils/calculations.py: subject difficulty and department leaderboard *)

(* DataFrame.sort(key, descending): every arrangement of the rows that is  *)
(* ordered by the key; rows with equal keys come in no guaranteed order    *)
(* (maintain_order is left at its default)                                 *)
KeyBefore(a, b, descending) == IF descending THEN RateLess(b, a) ELSE RateLess(a, b)

(* the orders of the indices is in which no later key comes before an     *)
(* earlier one                                                             *)
RECURSIVE SortedOrders(_, _, _)
SortedOrders(keys, is, descending) ==
    IF is = {} THEN {<<>>}
    ELSE UNION {{<<i>> \o o : o \in SortedOrders(keys, is \ {i}, descending)} :
                i \in {x \in is : \A y \in is : ~KeyBefore(keys[y], keys[x], descending)}}

sort(rows, keys, descending) ==
    {[j \in DOMAIN rows |-> rows[o[j]]] : o \in SortedOrders(keys, DOMAIN rows, descending)}

head(rows, n) == SubSeq(rows, 1, IF Len(rows) < n THEN Len(rows) ELSE n)

ScoreCols == <<"total_theory_marks", "cia_theory_avg", "theory_percentage",
               "ese_theory_internal">>

(* the first score column the table has, "none" when it has none *)
score_col(t) ==
    LET present == SelectSeq(ScoreCols, LAMBDA c : c \in t.cols)
    IN  IF present = <<>> THEN "none" ELSE present[1]

(* the rows that have a subject and a score *)
Scored(t) ==
    filter(t, [i \in DOMAIN t.rows |->
                 ~IsNull(t.rows[i]["subject"]) /\ ~IsNull(t.rows[i][score_col(t)])])

SubjectGroup(t, k) ==
    LET g == GroupRows(Scored(t), "subject", k)
    IN  [subject |-> k,
         avg_total_marks |-> [n |-> SumOver(g, score_col(t), DOMAIN g), d |-> Len(g)],
         exam_count |-> Len(g),
         pass_rate |-> Div(pass_count(g), Len(g))]

(* the groups in any order: group_by does not keep the order of the rows *)
SubjectGroups(t) ==
    Perms({SubjectGroup(t, k) : k \in GroupKeys(Scored(t), "subject")})

AvgKeys(rows) == [j \in DOMAIN rows |-> rows[j].avg_total_marks]
RateKeys(rows) == [j \in DOMAIN rows |-> rows[j].pass_rate]

(* the tables get_subject_difficulty can return *)
get_subject_difficulty(t) ==
    UNION {sort(g, AvgKeys(g), FALSE) : g \in SubjectGroups(t)}

DifficultyLimitDefault == 50

(* "easiest" sorted ascending as well *)
RankingOrder_ascending(rows, category) == sort(rows, AvgKeys(rows), FALSE)

RankingOrder(rows, category) == sort(rows, AvgKeys(rows), category = "easiest")

(* the answers get_difficulty_ranking can give *)
get_difficulty_ranking(t, limit, category) ==
    LET req == [limit |-> limit, category |-> category]
    IN  IF score_col(t) = "none" \/ ~({"subject", "pass_fail"} \subseteq t.cols)
        THEN {Error("get_difficulty_ranking", req, "ERR_SUBJ_003")}
        ELSE {Success("get_difficulty_ranking", req,
                  [j \in DOMAIN head(r, limit) |->
                     [rank |-> j,
                      subject |-> r[j].subject,
                      avg_marks |-> RoundDiv(r[j].avg_total_marks.n, r[j].avg_total_marks.d),
                      difficulty |-> IF category = "hardest" THEN "Hard" ELSE "Easy",
                      exam_count |-> r[j].exam_count,
                      pass_rate |-> Round2(r[j].pass_rate)]]) :
              r \in UNION {RankingOrder(d, category) : d \in get_subject_difficulty(t)}}

LeaderboardDefault == 5

(* departments with a single record left out of the candidates *)
LeaderboardStats_min_exams(t) ==
    {SelectSeq(s, LAMBDA g : g.exams > 1) : s \in get_department_stats(t)}

LeaderboardStats(t) == get_department_stats(t)

(* the results get_department_leaderboard can return; <<>> is the empty    *)
(* dict returned when there is no department                               *)
get_department_leaderboard(t, top_n) ==
    UNION {IF stats = <<>> THEN {<<>>}
           ELSE UNION {UNION {{[top |-> top, bottom |-> bottom, combined |-> combined] :
                                 combined \in sort(bottom \o top,
                                                   RateKeys(bottom \o top), FALSE)} :
                              bottom \in {head(b, top_n) :
                                            b \in sort(stats, RateKeys(stats), FALSE)}} :
                       top \in {head(a, top_n) : a \in sort(stats, RateKeys(stats), TRUE)}} :
           stats \in LeaderboardStats(t)}

---------------------------------------------------------------------------
(* Lookups and rankings on a loaded table *)

MaxLookupRows == 3

sArt == <<"A","r","t">>
sDeptZ == <<"Z">>

LookupCols == IdCols \cup ClassifyCols \cup {"total_theory_marks"}

LookupRow(subject, dept, marks, pf, year, id) ==
    [c \in LookupCols |->
        CASE c = "subject" -> Utf8(subject)
          [] c = "total_theory_marks" -> F64(marks)
          [] c = "pass_fail" -> Utf8(pf)
          [] c = "theory_percentage" -> F64(marks)
          [] c = "practical_percentage" -> Null
          [] OTHER -> IdCell(c, I64(id), Utf8(dept), I64(year))]

LookupRows ==
    {LookupRow(sMath, sDeptA, 6000, sPass, 2020, 1),
     LookupRow(sArt, sDeptB, 4000, sFail, 2021, 2),
     LookupRow(sArt, sDeptB, 6000, sPass, 2020, 1),
     LookupRow(sMath, sDeptA, 4000, sPass, 2021, 2)}

LookupSources ==
    {[cols |-> LookupCols, rows |-> rs] : rs \in SeqsUpTo(LookupRows, MaxLookupRows)}

InitLookup ==
    /\ source \in LookupSources
    /\ df = EmptyTable
    /\ pc = "file"
    /\ resp = NoResponse
    /\ NotServing

StudentIds == {1, 9}
DeptNames == {Utf8(sDeptB), Utf8(sDeptZ)}
TrendRequests ==
    {[entity_type |-> "department", entity_name |-> Utf8(sDeptB), metric |-> "pass_rate"],
     [entity_type |-> "department", entity_name |-> Utf8(sDeptZ), metric |-> "pass_rate"],
     [entity_type |-> "subject", entity_name |-> Utf8(sArt), metric |-> "exam_count"],
     [entity_type |-> "subject", entity_name |-> Utf8(sDeptZ), metric |-> "exam_count"]}

GetStudentDetails ==
    /\ pc = "ready"
    /\ \E student_id \in StudentIds : resp' \in get_student_details(df, student_id)
    /\ UNCHANGED <<source, df, pc, serving>>

GetDepartmentDetails ==
    /\ pc = "ready"
    /\ \E department_name \in DeptNames :
          resp' = get_department_details(df, department_name)
    /\ UNCHANGED <<source, df, pc, serving>>

GetTrends ==
    /\ pc = "ready"
    /\ \E r \in TrendRequests :
          resp' = get_trends(df, r.entity_type, r.entity_name, r.metric)
    /\ UNCHANGED <<source, df, pc, serving>>

GetDifficultyRanking ==
    /\ pc = "ready"
    /\ \E limit \in {DifficultyLimitDefault, 1}, category \in {"hardest", "easiest"} :
          resp' \in get_difficulty_ranking(df, limit, category)
    /\ UNCHANGED <<source, df, pc, serving>>

(* the dashboard's leaderboard chart: get_department_leaderboard(filtered) *)
DepartmentLeaderboard ==
    /\ pc = "ready"
    /\ \E top_n \in {LeaderboardDefault, 1} :
          \E board \in get_department_leaderboard(df, top_n) :
             resp' = Success("get_department_leaderboard", [top_n |-> top_n], board)
    /\ UNCHANGED <<source, df, pc, serving>>

NextLookup ==
    \/ LoadData
    \/ AddPerformanceColumn
    \/ GetStudentDetails
    \/ GetDepartmentDetails
    \/ GetTrends
    \/ GetDifficultyRanking
    \/ DepartmentLeaderboard

SpecLookup == InitLookup /\ [][NextLookup]_vars

---------------------------------------------------------------------------
(* Claims about lookups and rankings *)

StudentAbsent(id) ==
    \A i \in DOMAIN df.rows :
        df.rows[i]["student_id"] \notin {I64(id), Utf8(FormatNat(id))}

EntityAbsent(col, name) == \A i \in DOMAIN df.rows : df.rows[i][col] # name

(* C17: a request for a student, department or subject that the table does *)
(* not hold is answered with the endpoint's not-found code (ERR_STU_404,   *)
(* ERR_DEPT_404, ERR_ANA_404), not with its internal-error code.           *)
C17_NotFoundCode ==
    /\ (resp.handler = "get_student_details"
          /\ StudentAbsent(resp.request.student_id)) =>
          resp.error_code = "ERR_STU_404"
    /\ (resp.handler = "get_department_details"
          /\ EntityAbsent("department", resp.request.department_name)) =>
          resp.error_code = "ERR_DEPT_404"
    /\ (resp.handler = "get_trends"
          /\ EntityAbsent(IF resp.request.entity_type = "department"
                          THEN "department" ELSE "subject",
                          resp.request.entity_name)) =>
          resp.error_code = "ERR_ANA_404"

(* the rows of df that count for a subject, and the subject's mean score   *)
(* as the pair (sum, count)                                                *)
SubjectSel(k) ==
    {i \in DOMAIN df.rows :
        df.rows[i]["subject"] = k /\ ~IsNull(df.rows[i]["total_theory_marks"])}
SubjectSum(k) == SumOver(df.rows, "total_theory_marks", SubjectSel(k))
MeanLess(a, b) ==
    SubjectSum(a) * Cardinality(SubjectSel(b)) < SubjectSum(b) * Cardinality(SubjectSel(a))
MeanIs(k, marks) == SubjectSum(k) = marks * Cardinality(SubjectSel(k))

Ranking == resp.handler = "get_difficulty_ranking" /\ resp.status = "success"

(* C18: "hardest" lists the subjects by ascending mean score, "easiest" by *)
(* descending mean score; with one subject at mean 60 and one at mean 40   *)
(* "hardest" gives the one at 40 first, whatever their exam counts.        *)
C18_RankingOrder ==
    Ranking =>
        /\ \A j, k \in DOMAIN resp.data :
              j < k =>
                 IF resp.request.category = "easiest"
                 THEN ~MeanLess(resp.data[j].subject, resp.data[k].subject)
                 ELSE ~MeanLess(resp.data[k].subject, resp.data[j].subject)
        /\ \A a, b \in GroupKeys(df, "subject") :
              (MeanIs(a, 6000) /\ MeanIs(b, 4000) /\ SubjectSel(a) # {}
                 /\ SubjectSel(b) # {} /\ resp.request.category = "hardest"
                 /\ resp.request.limit >= 2) =>
                 /\ resp.data[1].subject = b
                 /\ resp.data[2].subject = a

C18_Witness ==
    /\ Ranking
    /\ resp.request.category = "hardest"
    /\ Len(resp.data) = 2
    /\ resp.data[1].avg_marks = 4000
    /\ resp.data[1].exam_count = 1
    /\ resp.data[2].avg_marks = 6000
    /\ resp.data[2].exam_count = 2

FirstOccurrence(k) ==
    CHOOSE i \in DOMAIN df.rows :
        df.rows[i]["subject"] = k /\ \A j \in 1..(i - 1) : df.rows[j]["subject"] # k

(* C19: two subjects with the same mean score are ranked in the order of   *)
(* their first rows in the table, so a table has one ranking.              *)
C19_TiesKeepRowOrder ==
    Ranking =>
        \A j, k \in DOMAIN resp.data :
            (j < k /\ ~MeanLess(resp.data[j].subject, resp.data[k].subject)
                   /\ ~MeanLess(resp.data[k].subject, resp.data[j].subject)) =>
                FirstOccurrence(resp.data[j].subject) < FirstOccurrence(resp.data[k].subject)

DeptPasses(k) == CountNorm(DeptSel(k), spass)

(* department a has a lower pass rate than department b *)
DeptRateLess(a, b) ==
    DeptPasses(a) * Cardinality(DeptSel(b)) < DeptPasses(b) * Cardinality(DeptSel(a))

Names(rows) == {rows[j].department : j \in DOMAIN rows}

Board == resp.handler = "get_department_leaderboard" /\ resp.data # <<>>

(* C20: "top" holds the N departments with the highest pass rate, all of   *)
(* them when there are fewer than N, and "bottom" the N with the lowest;   *)
(* every department of the table is a candidate, however few its records.  *)
C20_LeaderboardTopBottom ==
    /\ (resp.handler = "get_department_leaderboard" /\ resp.data = <<>>) =>
          df.rows = <<>>
    /\ Board =>
        LET depts == GroupKeys(df, "department")
            n == IF Cardinality(depts) < resp.request.top_n
                 THEN Cardinality(depts) ELSE resp.request.top_n
            top == resp.data.top
            bottom == resp.data.bottom
        IN  /\ Len(top) = n /\ Len(bottom) = n
            /\ Names(top) \subseteq depts /\ Names(bottom) \subseteq depts
            /\ Cardinality(Names(top)) = n /\ Cardinality(Names(bottom)) = n
            /\ \A j \in DOMAIN top :
                  /\ top[j].exams = Cardinality(DeptSel(top[j].department))
                  /\ \A k \in DOMAIN top :
                        j < k => ~DeptRateLess(top[j].department, top[k].department)
                  /\ \A d \in depts \ Names(top) :
                        ~DeptRateLess(top[j].department, d)
            /\ \A j \in DOMAIN bottom :
                  /\ \A k \in DOMAIN bottom :
                        j < k => ~DeptRateLess(bottom[k].department, bottom[j].department)
                  /\ \A d \in depts \ Names(bottom) :
                        ~DeptRateLess(d, bottom[j].department)

C20_Witness ==
    /\ Board
    /\ resp.request.top_n = 1
    /\ Cardinality(GroupKeys(df, "department")) = 2
    /\ resp.data.top[1].exams = 1
    /\ \E d \in GroupKeys(df, "department") : Cardinality(DeptSel(d)) = 2

---------------------------------------------------------------------------
(* api/dependencies.py: the cached table, call by call                     *)
(*                                                                         *)
(* get_dataframe is wrapped by functools.lru_cache(maxsize=1): the wrapper *)
(* looks the entry up, on a miss calls the function with no lock held, and *)
(* stores the result unless an entry is already there; a call that raises  *)
(* stores nothing.  calls[c] is the position of caller c inside one        *)
(* handler: idle, loading (missed, before load_data), classifying (before  *)
(* add_performance_column), built (before the store), holding (the handler *)
(* has its table) or raised (get_dataframe raised into the handler).       *)

SetCall(c, p, t) == calls' = [calls EXCEPT ![c] = [pc |-> p, table |-> t]]

(* the wrapper's lookup *)
Hit_never(entry) == FALSE
Hit(entry) == entry # <<>>

(* df = load_data() binds a local of the call: the cache keeps its entry   *)
AfterLoad_shared(entry, d) == <<d>>
AfterLoad(entry, d) == entry

(* the wrapper's store after the function has returned *)
lru_store(entry, result) == IF entry = <<>> THEN <<result>> ELSE entry

GetDataframe(c) ==
    /\ calls[c].pc = "idle"
    /\ IF Hit(cache)
       THEN SetCall(c, "holding", cache[1])
       ELSE SetCall(c, "loading", IdleCall.table)
    /\ UNCHANGED <<source, df, pc, resp, cache, reloaded>>

CallLoadData(c) ==
    /\ calls[c].pc = "loading"
    /\ \E d \in load_data(source) :
          /\ SetCall(c, "classifying", d)
          /\ cache' = AfterLoad(cache, d)
    /\ UNCHANGED <<source, df, pc, resp, reloaded>>

(* an exception passes through the wrapper, which stores nothing *)
AfterRaise_memoised(entry) == <<EmptyTable>>
AfterRaise(entry) == entry

CallAddPerformanceColumn(c) ==
    /\ calls[c].pc = "classifying"
    /\ IF ClassifyRaises(calls[c].table)
       THEN SetCall(c, "raised", IdleCall.table) /\ cache' = AfterRaise(cache)
       ELSE SetCall(c, "built", add_performance_column(calls[c].table)) /\ cache' = cache
    /\ UNCHANGED <<source, df, pc, resp, reloaded>>

CacheStore(c) ==
    /\ calls[c].pc = "built"
    /\ cache' = lru_store(cache, calls[c].table)
    /\ SetCall(c, "holding", calls[c].table)
    /\ UNCHANGED <<source, df, pc, resp, reloaded>>

ReloadData ==
    /\ cache' = <<>>
    /\ reloaded' = TRUE
    /\ UNCHANGED <<source, df, pc, resp, calls>>

---------------------------------------------------------------------------
(* One request, from get_dataframe to the response *)

(* the requests sent: a handler and its parameters *)
ServeRequests ==
    {"overall", "overall_absent", "departments", "student", "student_absent",
     "trends", "trends_absent"}

RequestHandler(q) ==
    CASE q \in {"overall", "overall_absent"} -> "get_overall_kpis"
      [] q = "departments" -> "get_department_kpis"
      [] q \in {"student", "student_absent"} -> "get_student_details"
      [] OTHER -> "get_trends"

RequestParams(q) ==
    CASE q = "overall" -> [year |-> Null, department |-> Null]
      [] q = "overall_absent" -> [year |-> Null, department |-> Utf8(sDeptZ)]
      [] q = "departments" -> [limit |-> DeptLimitDefault, sort_by |-> "pass_rate"]
      [] q = "student" -> [student_id |-> 1]
      [] q = "student_absent" -> [student_id |-> 9]
      [] q = "trends" -> [entity_type |-> "department", entity_name |-> Utf8(sDeptB),
                          metric |-> "pass_rate"]
      [] OTHER -> [entity_type |-> "subject", entity_name |-> Utf8(sDeptZ),
                   metric |-> "exam_count"]

(* the code of the handler's own "except Exception" branch *)
ExceptCode(h) ==
    CASE h = "get_overall_kpis" -> "ERR_KPI_001"
      [] h = "get_department_kpis" -> "ERR_KPI_003"
      [] h = "get_student_details" -> "ERR_STU_002"
      [] OTHER -> "ERR_ANA_004"

(* api.py: the answer to an exception that left the handler *)
general_exception_handler(q) ==
    Error(RequestHandler(q), RequestParams(q), "ERR_INTERNAL_500")

(* get_dataframe raised: it is called inside the handler's try block *)
FailedResponse_uncaught(q) == general_exception_handler(q)
FailedResponse(q) ==
    Error(RequestHandler(q), RequestParams(q), ExceptCode(RequestHandler(q)))

(* the answers the handler can give on the table t *)
Handle(t, q) ==
    LET a == RequestParams(q)
    IN  CASE RequestHandler(q) = "get_overall_kpis" ->
                {get_overall_kpis(t, a.year, a.department)}
          [] RequestHandler(q) = "get_department_kpis" ->
                get_department_kpis(t, a.limit, a.sort_by)
          [] RequestHandler(q) = "get_student_details" ->
                get_student_details(t, a.student_id)
          [] OTHER -> {get_trends(t, a.entity_type, a.entity_name, a.metric)}

Respond(c) ==
    /\ calls[c].pc \in {"holding", "raised"}
    /\ \E q \in ServeRequests :
          IF calls[c].pc = "raised"
          THEN resp' = FailedResponse(q)
          ELSE resp' \in Handle(calls[c].table, q)
    /\ calls' = [calls EXCEPT ![c] = IdleCall]
    /\ reloaded' = FALSE
    /\ UNCHANGED <<source, df, pc, cache>>

---------------------------------------------------------------------------
(* The served files: none, one record, two departments with equal rates *)

NoFile == EmptyTable

ServeRows ==
    {<<LookupRow(sMath, sDeptA, 6000, sPass, 2020, 1)>>,
     <<LookupRow(sMath, sDeptA, 6000, sPass, 2020, 1),
       LookupRow(sArt, sDeptB, 6000, sPass, 2020, 1)>>,
     <<LookupRow(sArt, sDeptB, 4000, sFail, 2021, 2),
       LookupRow(sMath, sDeptA, 4000, sPass, 2021, 2)>>}

ServeSources == {NoFile} \cup {[cols |-> LookupCols, rows |-> rs] : rs \in ServeRows}

InitServe ==
    /\ source \in ServeSources
    /\ df = EmptyTable
    /\ pc = "file"
    /\ resp = NoResponse
    /\ NotServing

(* callers on threads: the steps of different calls interleave freely *)
NextServe ==
    \/ \E c \in Callers : GetDataframe(c)
    \/ \E c \in Callers : CallLoadData(c)
    \/ \E c \in Callers : CallAddPerformanceColumn(c)
    \/ \E c \in Callers : CacheStore(c)
    \/ \E c \in Callers : Respond(c)
    \/ ReloadData

SpecServe == InitServe /\ [][NextServe]_vars

(* the API as served: every route is an "async def" without an await, so   *)
(* the event loop runs one handler to its response before the next starts  *)
Quiet == \A c \in Callers : calls[c].pc = "idle"

SerialGetDataframe(c) == Quiet /\ GetDataframe(c)
SerialReloadData == Quiet /\ ReloadData

NextSerial ==
    \/ \E c \in Callers : SerialGetDataframe(c)
    \/ \E c \in Callers : CallLoadData(c)
    \/ \E c \in Callers : CallAddPerformanceColumn(c)
    \/ \E c \in Callers : CacheStore(c)
    \/ \E c \in Callers : Respond(c)
    \/ SerialReloadData

SpecSerial == InitServe /\ [][NextSerial]_vars

---------------------------------------------------------------------------
(* Claims about the cached table *)

(* the tables get_dataframe can build from the file *)
Builds(src) ==
    {add_performance_column(d) : d \in {e \in load_data(src) : ~ClassifyRaises(e)}}

Building(c) == calls[c].pc \in {"loading", "classifying"}

C13_AtMostOneBuildInFlight == Cardinality({c \in Callers : Building(c)}) <= 1

(* C14: under any interleaving of reload_data with requests in flight,     *)
(* every table a request obtains from get_dataframe is completely built    *)
(* (loaded, derived and classified); a request that holds a table keeps    *)
(* it, whatever is reloaded meanwhile, and answers from it.                *)
C14_ReadersSeeBuiltTables ==
    [][\A c \in Callers :
          /\ calls'[c].pc = "holding" =>
                /\ calls'[c].table \in Builds(source)
                /\ "performance" \in calls'[c].table.cols
          /\ (calls[c].pc = "holding" /\ calls'[c].pc = "holding") =>
                calls'[c].table = calls[c].table
          /\ (calls[c].pc = "holding" /\ calls'[c].pc = "idle") =>
                \E q \in ServeRequests : resp' \in Handle(calls[c].table, q)]_vars

(* a request holds its table after a reload emptied the cache, while       *)
(* another request is rebuilding                                           *)
C14_Witness ==
    /\ reloaded
    /\ cache = <<>>
    /\ \E c, d \in Callers : calls[c].pc = "holding" /\ calls[d].pc = "classifying"

(* the handlers that answer with aggregates *)
AggregateHandlers == {"get_overall_kpis", "get_department_kpis", "get_trends"}

(* C15: reload is idempotent on outputs.  With the source unchanged (no    *)
(* file included), the aggregate answer to a request computed after        *)
(* reload_data is identical, row order included, to the answer the same    *)
(* request got before it.                                                  *)
C15_ReloadKeepsOutputs ==
    [][(/\ reloaded /\ ~reloaded'
        /\ resp.handler \in AggregateHandlers
        /\ resp'.handler = resp.handler
        /\ resp'.request = resp.request) => resp' = resp]_vars

(* C16: every handler returns a structured result for every outcome.  When *)
(* its computation raises, the answer has status "error" and an error code *)
(* of the handler's own (the exception did not leave the handler, so the   *)
(* code is not the application-level ERR_INTERNAL_500); a success carries  *)
(* no error code.                                                          *)
C16_StructuredResult ==
    resp # NoResponse =>
        /\ resp.status \in {"success", "error"}
        /\ resp.status = "error" =>
              /\ resp.error_code \notin {"none", "ERR_INTERNAL_500"}
              /\ resp.data = <<>>
        /\ resp.status = "success" => resp.error_code = "none"
        /\ source = NoFile => resp.status = "error"

(* get_dataframe raised inside get_overall_kpis: no file, and the sample   *)
(* data cannot be classified                                               *)
C16_Witness ==
    /\ source = NoFile
    /\ resp.handler = "get_overall_kpis"
    /\ resp.error_code = "ERR_KPI_001"

---------------------------------------------------------------------------
(* Trends: files of one department over three years *)

SubSeqs(s) == {SelectSeq2(s, keep) : keep \in [DOMAIN s -> BOOLEAN]}

TrendRecords ==
    <<LookupRow(sArt, sDeptB, 4000, sFail, 2020, 1),
      LookupRow(sArt, sDeptB, 9000, sPass, 2020, 2),
      LookupRow(sArt, sDeptB, 9000, sPass, 2021, 1),
      LookupRow(sArt, sDeptB, 4000, sFail, 2021, 2),
      LookupRow(sArt, sDeptB, 6000, sPass, 2022, 1),
      LookupRow(sArt, sDeptB, 4000, sFail, 2022, 2)>>

TrendSources == {[cols |-> LookupCols, rows |-> rs] : rs \in SubSeqs(TrendRecords)}

InitTrend ==
    /\ source \in TrendSources
    /\ df = EmptyTable
    /\ pc = "file"
    /\ resp = NoResponse
    /\ NotServing

GetAnyTrends ==
    /\ pc = "ready"
    /\ \E entity_type \in {"department", "subject"}, metric \in TrendMetrics :
          resp' = get_trends(df, entity_type,
                             IF entity_type = "department" THEN Utf8(sDeptB) ELSE Utf8(sArt),
                             metric)
    /\ UNCHANGED <<source, df, pc, serving>>

NextTrend == LoadData \/ AddPerformanceColumn \/ GetAnyTrends

SpecTrend == InitTrend /\ [][NextTrend]_vars

(* the records of the entity the answer is about, and their years *)
TrendSel ==
    {i \in DOMAIN df.rows :
        df.rows[i][IF resp.request.entity_type = "department" THEN "department" ELSE "subject"]
            = resp.request.entity_name}
TrendYears == {df.rows[i]["exam_year"].v : i \in TrendSel}
Earliest == CHOOSE y \in TrendYears : \A z \in TrendYears : y <= z
Latest == CHOOSE y \in TrendYears : \A z \in TrendYears : z <= y

(* the value of the metric in year y, counted from the table *)
ValueOf(y) ==
    LET ys == {i \in TrendSel : df.rows[i]["exam_year"].v = y}
    IN  IF resp.request.metric = "exam_count" THEN Cardinality(ys)
        ELSE IF resp.request.metric = "pass_rate"
        THEN Round2(Div(CountNorm(ys, spass), Cardinality(ys)))
        ELSE Round2(Div(CountDistinction(ys), Cardinality(ys)))

Trended == resp.handler = "get_trends" /\ resp.status = "success"

(* C21: for an entity with values for at least two years the direction is  *)
(* "upward" when the latest year's value is above the earliest year's,     *)
(* "downward" when below, "stable" when equal, and the magnitude is latest *)
(* minus earliest; the years in between count for neither.                 *)
C21_TrendDirection ==
    (Trended /\ Cardinality(TrendYears) >= 2) =>
        /\ resp.data.latest_value = ValueOf(Latest)
        /\ resp.data.earliest_value = ValueOf(Earliest)
        /\ resp.data.trend_change = ValueOf(Latest) - ValueOf(Earliest)
        /\ resp.data.trend_direction =
              (IF ValueOf(Latest) > ValueOf(Earliest) THEN "upward"
               ELSE IF ValueOf(Latest) < ValueOf(Earliest) THEN "downward"
               ELSE "stable")

(* upward although the year in between is above the latest: 0, 100, 50 *)
C21_Witness ==
    /\ Trended
    /\ resp.request.metric = "pass_rate"
    /\ Len(resp.data.trends) = 3
    /\ resp.data.trends[2].value > resp.data.trends[3].value
    /\ resp.data.trend_direction = "upward"
    /\ resp.data.trend_change = 5000

---------------------------------------------------------------------------
(* data/processor.py: filter_data *)

sAll == <<"A","l","l">>
s2020 == <<"2","0","2","0">>
s2022 == <<"2","0","2","2">>
sx == <<"x">>

(* a filter value: a list/tuple of items, or one item (None is Null) *)
ListOf(items) == [list |-> TRUE, items |-> items]
Scalar(c) == [list |-> FALSE, items |-> <<c>>]

(* isinstance(y, (int, float)) *)
IsNumber(c) == c.t \in {"int", "f64"}

(* int(x): x itself, or the number a text of digits spells *)
IntOf(c) == IF c.t = "int" THEN c.v ELSE ParseNat(c.s)

(* year_range in (None, [], "All") *)
YearUnset(year_range) ==
    \/ year_range.list /\ year_range.items = <<>>
    \/ ~year_range.list /\ year_range.items[1] \in {Null, Utf8(sAll)}

(* (pl.col("exam_year") >= lo) & (pl.col("exam_year") <= hi) *)
InRange_exclusive(c, lo, hi) == ~IsNull(c) /\ lo <= c.v /\ c.v < hi
InRange(c, lo, hi) == ~IsNull(c) /\ lo <= c.v /\ c.v <= hi

(* the year step: the mask of the rows kept *)
YearMask(t, year_range) ==
    LET its == year_range.items
    IN  IF year_range.list /\ Len(its) >= 2 /\ \A j \in DOMAIN its : IsNumber(its[j])
        THEN [i \in DOMAIN t.rows |-> InRange(t.rows[i]["exam_year"], its[1].v, its[2].v)]
        ELSE IF YearUnset(year_range) \/ IntRaises(its[1])
        THEN [i \in DOMAIN t.rows |-> TRUE]
        ELSE [i \in DOMAIN t.rows |-> t.rows[i]["exam_year"] = I64(IntOf(its[1]))]

(* "if value and value != 'All'" *)
TextSet(v) == Truthy(v) /\ v # Utf8(sAll)

(* semester not in ("All", None, "") and int(semester) succeeds *)
SemesterSet(v) == v \notin {Utf8(sAll), Null, Utf8(<<>>)} /\ ~IntRaises(v)

filter_data(t, year_range, department, semester, subject) ==
    LET f1 == filter(t, YearMask(t, year_range))
        f2 == IF TextSet(department) THEN FilterEq(f1, "department", department) ELSE f1
        f3 == IF SemesterSet(semester)
              THEN FilterEq(f2, "semester", I64(IntOf(semester))) ELSE f2
    IN  IF TextSet(subject) THEN FilterEq(f3, "subject", subject) ELSE f3

---------------------------------------------------------------------------
(* filter_data applied to the dashboard's selections *)

MaxFilterRows == 2

FilterCols == {"student_id", "exam_year", "department", "semester", "subject"}

FilterRow(id, year, dept, sem) ==
    [c \in FilterCols |->
        CASE c = "student_id" -> Utf8(FormatNat(id))
          [] c = "exam_year" -> year
          [] c = "department" -> Utf8(dept)
          [] c = "semester" -> I64(sem)
          [] OTHER -> Utf8(sMath)]

FilterRows ==
    {FilterRow(1, I64(2019), sDeptA, 1),
     FilterRow(2, I64(2020), sDeptA, 2),
     FilterRow(3, I64(2022), sDeptB, 1),
     FilterRow(4, I64(2023), sDeptB, 2),
     FilterRow(5, Null, sDeptA, 1)}

YearRanges ==
    {Scalar(Null), Scalar(Utf8(sAll)), ListOf(<<>>),
     ListOf(<<I64(2020), I64(2022)>>), ListOf(<<I64(2022), I64(2020)>>),
     ListOf(<<Utf8(s2020), Utf8(s2022)>>), ListOf(<<I64(2020), Utf8(sx)>>),
     ListOf(<<Utf8(sx), I64(2022)>>), ListOf(<<I64(2022)>>),
     Scalar(I64(2020)), Scalar(Utf8(s2022)), Scalar(Utf8(sx))}

SemesterValues == {Utf8(sAll), Null, Utf8(<<>>), I64(1), Utf8(s1), Utf8(sx)}

DepartmentValues == {Utf8(sAll), Null, Utf8(sDeptA)}

InitFilter ==
    /\ source \in {[cols |-> FilterCols, rows |-> rs] : rs \in SeqsUpTo(FilterRows, MaxFilterRows)}
    /\ df = EmptyTable
    /\ pc = "input"
    /\ resp = NoResponse
    /\ NotServing

FilterData ==
    /\ pc = "input"
    /\ \E year_range \in YearRanges, department \in DepartmentValues,
          semester \in SemesterValues :
          /\ df' = filter_data(source, year_range, department, semester, Utf8(sAll))
          /\ resp' = Success("filter_data",
                             [year_range |-> year_range, department |-> department,
                              semester |-> semester, subject |-> Utf8(sAll)], <<>>)
    /\ pc' = "filtered"
    /\ UNCHANGED <<source, serving>>

NextFilter == FilterData

SpecFilter == InitFilter /\ [][NextFilter]_vars

---------------------------------------------------------------------------
(* Claims about filter_data *)

Filtered == pc = "filtered"

(* df is the records of source with their index in keep, in source order *)
KeepsExactly(keep) ==
    /\ Len(df.rows) = Cardinality(keep)
    /\ \A j \in DOMAIN df.rows :
          df.rows[j] = source.rows[CHOOSE i \in keep :
                                      Cardinality({k \in keep : k < i}) = j - 1]

Unset(v) == v \in {Utf8(sAll), Null, Utf8(<<>>)}

(* C22: with a year range [lo, hi] filter_data returns exactly the records *)
(* with lo <= exam_year <= hi, both bounds included, in their original     *)
(* order: for [2020, 2022] a record of 2019 is left out and one of 2022 is *)
(* kept.                                                                   *)
C22_YearRangeInclusive ==
    (/\ Filtered
     /\ resp.request.year_range = ListOf(<<I64(2020), I64(2022)>>)
     /\ Unset(resp.request.department) /\ Unset(resp.request.semester)) =>
        KeepsExactly({i \in DOMAIN source.rows :
                        /\ source.rows[i]["exam_year"] # Null
                        /\ source.rows[i]["exam_year"].v >= 2020
                        /\ source.rows[i]["exam_year"].v <= 2022})

(* a file with a record of 2019 before one of 2022: only the second stays *)
C22_Witness ==
    /\ Filtered
    /\ resp.request.year_range = ListOf(<<I64(2020), I64(2022)>>)
    /\ Unset(resp.request.department) /\ Unset(resp.request.semester)
    /\ Len(source.rows) = 2
    /\ source.rows[1]["exam_year"] = I64(2019)
    /\ source.rows[2]["exam_year"] = I64(2022)
    /\ df.rows = <<source.rows[2]>>

(* a value that spells a number *)
Numeric(c) == c.t = "int" \/ (c.t = "str" /\ AllDigits(c.s))
NumberOf(c) == IF c.t = "int" THEN c.v ELSE ParseNat(c.s)

(* the records the year selection keeps when a pair is a range, one value  *)
(* a single year, and a value that is no number no filter at all           *)
YearKept(i) ==
    LET yr == resp.request.year_range
        y == source.rows[i]["exam_year"]
    IN  IF yr.list /\ Len(yr.items) = 2
        THEN (\A j \in 1..2 : Numeric(yr.items[j])) =>
                 /\ y # Null
                 /\ NumberOf(yr.items[1]) <= y.v /\ y.v <= NumberOf(yr.items[2])
        ELSE IF yr.items = <<>> \/ Unset(yr.items[1]) \/ ~Numeric(yr.items[1]) THEN TRUE
        ELSE y = I64(NumberOf(yr.items[1]))

SemesterKept(i) ==
    LET v == resp.request.semester
    IN  (~Unset(v) /\ Numeric(v)) => source.rows[i]["semester"] = I64(NumberOf(v))

DepartmentKept(i) ==
    LET v == resp.request.department
    IN  ~Unset(v) => source.rows[i]["department"] = v

(* C26: a malformed filter value never raises; a year or semester value    *)
(* that is not numeric skips that one filter and the result is exactly the *)
(* rows the remaining filters select; a year range given as a pair is      *)
(* always applied as a range with both bounds.                             *)
C26_MalformedValueSkipsFilter ==
    Filtered =>
        KeepsExactly({i \in DOMAIN source.rows :
                        YearKept(i) /\ SemesterKept(i) /\ DepartmentKept(i)})

---------------------------------------------------------------------------
(* Files that give the examination year in different columns *)

MaxYearRows == 1

s202310 == <<"2","0","2","3","1","0">>
sENDSEM == <<"E","N","D","S","E","M">>
sM2019 == <<"M","2","0","1","9">>

YearBaseCols == {"student_id", "subject", "department"}
YearExtraCols == {"exam_year", "exam_name", "exam_month", "year"}

YearRow(cols, ey, en, em, y, sj) ==
    [c \in cols |->
        CASE c = "exam_year" -> ey
          [] c = "exam_name" -> en
          [] c = "exam_month" -> em
          [] c = "year" -> y
          [] c = "subject" -> sj
          [] c = "department" -> Utf8(sDeptA)
          [] OTHER -> I64(1)]

YearRowsOf(cols) ==
    {YearRow(cols, ey, en, em, y, sj) :
        ey \in {I64(2020), Utf8(sx)},
        en \in {Utf8(s202310), Utf8(sENDSEM)},
        em \in {Utf8(s202310)},
        y \in {I64(2021), Null},
        sj \in {Utf8(sMath), Utf8(sM2019)}}

YearSources ==
    UNION {{[cols |-> YearBaseCols \cup extra, rows |-> rs] :
               rs \in SeqsUpTo(YearRowsOf(YearBaseCols \cup extra), MaxYearRows) \ {<<>>}} :
           extra \in SUBSET YearExtraCols}

InitYear ==
    /\ source \in YearSources
    /\ df = EmptyTable
    /\ pc = "file"
    /\ resp = NoResponse
    /\ NotServing

NextYear == LoadData

SpecYear == InitYear /\ [][NextYear]_vars

(* the years one strategy gives for the rows of the file *)
YearsFromColumn(c) ==
    [i \in DOMAIN source.rows |->
        IF c \in {"exam_year", "year"} THEN CastI32(source.rows[i][c])
        ELSE ExtractYear(CastUtf8(source.rows[i][c]))]
YearsFromAllText ==
    [i \in DOMAIN source.rows |-> YearFromText(source).rows[i]["exam_year"]]
NoYears == [i \in DOMAIN source.rows |-> Null]

Yields(c) == c \in source.cols /\ \E i \in DOMAIN source.rows : ~IsNull(YearsFromColumn(c)[i])

(* the first strategy that gives a year for some row; the examination      *)
(* month counts with the exam-name strategy                                *)
ResolvedYears ==
    IF "exam_year" \in source.cols THEN YearsFromColumn("exam_year")
    ELSE IF Yields("exam_name") THEN YearsFromColumn("exam_name")
    ELSE IF Yields("exam_month") THEN YearsFromColumn("exam_month")
    ELSE IF Yields("year") THEN YearsFromColumn("year")
    ELSE IF \E i \in DOMAIN source.rows : ~IsNull(YearsFromAllText[i]) THEN YearsFromAllText
    ELSE NoYears

(* C23: exam_year comes from the first strategy that succeeds, in the      *)
(* order: an exam_year column, a 4-digit pattern in the exam name, a       *)
(* column whose name contains "year", a 4-digit pattern in the             *)
(* concatenated text columns, null.  A strategy that gives no year for any *)
(* row does not end the resolution: the next one is tried.                 *)
C23_YearResolutionOrder ==
    pc = "loaded" =>
        \A i \in DOMAIN df.rows : df.rows[i]["exam_year"] = ResolvedYears[i]

---------------------------------------------------------------------------
(* Files that lack a required column *)

MaxRequiredRows == 1

RequiredFields == {"student_id", "subject", "department"}

(* the raw names _validate_and_process accepts for a required field *)
RawNames(f) ==
    CASE f = "student_id" -> {"student_id", "studentid"}
      [] f = "subject" -> {"subject", "subject_name", "name"}
      [] OTHER -> {"department", "dept", "offering_department"}

RequiredSources ==
    UNION {{[cols |-> {"exam_year"} \cup raw, rows |-> rs] :
               rs \in SeqsUpTo({YearRow({"exam_year"} \cup raw, I64(y), Null, Null, Null,
                                        Utf8(sMath)) : y \in {2020, 2021}},
                               MaxRequiredRows) \ {<<>>}} :
           raw \in SUBSET {"student_id", "studentid", "subject", "department", "dept"}}

InitRequired ==
    /\ source \in RequiredSources
    /\ df = EmptyTable
    /\ pc = "file"
    /\ resp = NoResponse
    /\ NotServing

SpecRequired == InitRequired /\ [][NextYear]_vars

Unresolved(f) == RawNames(f) \cap source.cols = {}

(* C24: when student_id, subject or department cannot be resolved from the *)
(* columns of the file, load_data still returns the table built from the   *)
(* file, with that field null on the rows; the load is not aborted and the *)
(* rows of the file are not replaced by other data.                        *)
C24_UnresolvedFieldKeepsRows ==
    pc = "loaded" =>
        /\ Len(df.rows) = Len(source.rows)
        /\ \A i \in DOMAIN df.rows :
              /\ df.rows[i]["exam_year"] = source.rows[i]["exam_year"]
              /\ \A f \in RequiredFields :
                    Unresolved(f) => (f \in df.cols /\ df.rows[i][f] = Null)

---------------------------------------------------------------------------
(* data/column_mapping.py *)

(* COLUMN_MAPPINGS: the candidate names of a standard name, in order *)
COLUMN_MAPPINGS(standard_name) ==
    CASE standard_name = "offering_department" ->
            <<<<"o","f","f","e","r","i","n","g","_","d","e","p","a","r","t","m","e","n","t">>,
              <<"d","e","p","a","r","t","m","e","n","t">>,
              <<"d","e","p","t">>,
              <<"b","r","a","n","c","h">>,
              <<"p","r","o","g","r","a","m">>,
              <<"f","a","c","u","l","t","y">>,
              <<"s","c","h","o","o","l">>>>
      [] standard_name = "exam_year" ->
            <<<<"e","x","a","m","_","y","e","a","r">>,
              <<"y","e","a","r">>,
              <<"a","c","a","d","e","m","i","c","_","y","e","a","r">>,
              <<"y","e","a","r","_","o","f","_","e","x","a","m">>,
              <<"e","x","a","m","i","n","a","t","i","o","n","_","y","e","a","r">>,
              <<"e","x","a","m","_","s","e","s","s","i","o","n">>>>
      [] OTHER -> <<>>

StandardNames == {"offering_department", "exam_year"}

(* name.lower().strip().replace(' ', '_') *)
NormalizeName(name) ==
    LET n == strip(to_lowercase(name))
    IN  [i \in 1..Len(n) |-> IF n[i] = " " THEN "_" ELSE n[i]]

(* normalized_df_cols[key]: the dict keeps the last column of the list     *)
(* that normalises to the key                                              *)
normalized_df_cols(df_columns, key) ==
    LET at == {i \in DOMAIN df_columns : NormalizeName(df_columns[i]) = key}
    IN  df_columns[CHOOSE i \in at : \A j \in at : i >= j]

(* the candidates, in order, that some column normalises to *)
MatchedCandidates(df_columns, standard_name) ==
    {k \in DOMAIN COLUMN_MAPPINGS(standard_name) :
        \E i \in DOMAIN df_columns :
            NormalizeName(df_columns[i]) = NormalizeName(COLUMN_MAPPINGS(standard_name)[k])}

find_column_match(df_columns, standard_name) ==
    LET found == MatchedCandidates(df_columns, standard_name)
    IN  IF found = {} THEN Null
        ELSE Utf8(normalized_df_cols(df_columns,
                 NormalizeName(COLUMN_MAPPINGS(standard_name)[
                     CHOOSE k \in found : \A j \in found : k <= j])))

get_column_mapping(df_columns) ==
    [standard_name \in StandardNames |-> find_column_match(df_columns, standard_name)]

---------------------------------------------------------------------------
(* Column lists of received files *)

MaxColumns == 2

ColumnNames ==
    {<<"D","e","p","t">>,
     <<"d","e","p","t">>,
     <<" ","B","r","a","n","c","h">>,
     <<"d","e","p","a","r","t","m","e","n","t">>,
     <<"Y","e","a","r">>,
     <<"y","e","a","r">>,
     <<"E","x","a","m"," ","Y","e","a","r">>,
     <<"m","a","r","k","s">>}

InitMapping ==
    /\ source \in {[cols |-> {cs[i] : i \in DOMAIN cs}, rows |-> <<>>, columns |-> cs] :
                      cs \in {c \in SeqsUpTo(ColumnNames, MaxColumns) :
                                 \A i, j \in DOMAIN c : i # j => c[i] # c[j]}}
    /\ df = EmptyTable
    /\ pc = "csv"
    /\ resp = NoResponse
    /\ NotServing

GetColumnMapping ==
    /\ pc = "csv"
    /\ resp' = Success("get_column_mapping", source.columns,
                       get_column_mapping(source.columns))
    /\ pc' = "mapped"
    /\ UNCHANGED <<source, df, serving>>

NextMapping == GetColumnMapping

SpecMapping == InitMapping /\ [][NextMapping]_vars

(* the candidate positions of field f that a column of the file matches,   *)
(* case and white space aside                                              *)
CandidatesPresent(f) ==
    {k \in DOMAIN COLUMN_MAPPINGS(f) :
        \E c \in source.cols : NormalizeName(c) = COLUMN_MAPPINGS(f)[k]}

(* C25: for each canonical field the resolver returns the raw column that  *)
(* matches the earliest candidate name of the field's list (case and       *)
(* surrounding white space ignored), or unresolved when none matches; the  *)
(* mapping depends on the set of column names only, so the same set always *)
(* gives the same mapping.                                                 *)
C25_EarliestCandidateOfColumnSet ==
    pc = "mapped" =>
        \A f \in StandardNames :
            /\ CandidatesPresent(f) = {} => resp.data[f] = Null
            /\ CandidatesPresent(f) # {} =>
                  /\ resp.data[f] # Null
                  /\ resp.data[f].s \in source.cols
                  /\ NormalizeName(resp.data[f].s) =
                        COLUMN_MAPPINGS(f)[CHOOSE k \in CandidatesPresent(f) :
                                              \A j \in CandidatesPresent(f) : k <= j]
            /\ \A other \in Perms(source.cols) :
                  find_column_match(other, f) = resp.data[f]

---------------------------------------------------------------------------
(* api/routes/departments.py, api/routes/subjects.py: paginated listings *)

Count(n) == [n |-> n, d |-> 1]

ListDeptKeys(rows, sort_by) ==
    [j \in DOMAIN rows |->
        IF sort_by = "exams" THEN Count(rows[j].exams)
        ELSE IF sort_by = "students" THEN Count(rows[j].students)
        ELSE rows[j].pass_rate]

(* the answers list_departments can give *)
list_departments(t, limit, offset, sort_by) ==
    LET req == [limit |-> limit, offset |-> offset, sort_by |-> sort_by]
    IN  IF ~({"department", "pass_fail", "student_id"} \subseteq t.cols)
        THEN {Error("list_departments", req, "ERR_DEPT_001")}
        ELSE {Success("list_departments", req,
                  [items |-> [j \in DOMAIN slice(r, offset, limit) |->
                                [department |-> slice(r, offset, limit)[j].department,
                                 students |-> slice(r, offset, limit)[j].students,
                                 exams |-> slice(r, offset, limit)[j].exams,
                                 pass_count |-> slice(r, offset, limit)[j].pass_count,
                                 pass_rate |-> Round2(slice(r, offset, limit)[j].pass_rate)]],
                   total |-> Len(r),
                   limit |-> limit,
                   offset |-> offset]) :
              r \in UNION {sort(d, ListDeptKeys(d, sort_by), TRUE) :
                             d \in get_department_stats(t)}}

ListSubjectKeys(rows, sort_by) ==
    [j \in DOMAIN rows |->
        IF sort_by = "pass_rate" THEN rows[j].pass_rate
        ELSE IF sort_by = "exam_count" THEN Count(rows[j].exam_count)
        ELSE rows[j].avg_total_marks]

(* the answers list_subjects can give; the rank counts from offset + 1 *)
list_subjects(t, limit, offset, sort_by) ==
    LET req == [limit |-> limit, offset |-> offset, sort_by |-> sort_by]
    IN  IF score_col(t) = "none" \/ ~({"subject", "pass_fail"} \subseteq t.cols)
        THEN {Error("list_subjects", req, "ERR_SUBJ_001")}
        ELSE {Success("list_subjects", req,
                  [items |-> [j \in DOMAIN slice(r, offset, limit) |->
                                [rank |-> offset + j,
                                 subject |-> slice(r, offset, limit)[j].subject,
                                 avg_marks |-> RoundDiv(slice(r, offset, limit)[j].avg_total_marks.n,
                                                        slice(r, offset, limit)[j].avg_total_marks.d),
                                 exam_count |-> slice(r, offset, limit)[j].exam_count,
                                 pass_rate |-> Round2(slice(r, offset, limit)[j].pass_rate)]],
                   total |-> Len(r),
                   limit |-> limit,
                   offset |-> offset]) :
              r \in UNION {sort(d, ListSubjectKeys(d, sort_by),
                                sort_by \in {"pass_rate", "exam_count"}) :
                             d \in get_subject_difficulty(t)}}

ListDepartmentsLimitDefault == 70
ListSubjectsLimitDefault == 100

ListDepartments ==
    /\ pc = "ready"
    /\ \E limit \in {ListDepartmentsLimitDefault, 1}, offset \in 0..2,
          sort_by \in {"pass_rate", "exams"} :
          resp' \in list_departments(df, limit, offset, sort_by)
    /\ UNCHANGED <<source, df, pc, serving>>

ListSubjects ==
    /\ pc = "ready"
    /\ \E limit \in {ListSubjectsLimitDefault, 1}, offset \in 0..2,
          sort_by \in {"difficulty", "pass_rate"} :
          resp' \in list_subjects(df, limit, offset, sort_by)
    /\ UNCHANGED <<source, df, pc, serving>>

NextList == LoadData \/ AddPerformanceColumn \/ ListDepartments \/ ListSubjects

SpecList == InitLookup /\ [][NextList]_vars

---------------------------------------------------------------------------
(* Claims about the paginated listings *)

Listed == resp.handler \in {"list_departments", "list_subjects"} /\ resp.status = "success"

(* the entities the listing is about, counted from the table *)
ListEntities ==
    IF resp.handler = "list_departments" THEN GroupKeys(df, "department")
    ELSE {df.rows[i]["subject"] : i \in {j \in DOMAIN df.rows : SubjectSel(df.rows[j]["subject"]) # {}}}

ItemName(item) == IF resp.handler = "list_departments" THEN item.department ELSE item.subject

SubjectRateLess(a, b) ==
    CountNorm(SubjectSel(a), spass) * Cardinality(SubjectSel(b))
        < CountNorm(SubjectSel(b), spass) * Cardinality(SubjectSel(a))

(* the sort of the request puts entity a strictly before entity b *)
ListedBefore(a, b) ==
    IF resp.handler = "list_departments"
    THEN (IF resp.request.sort_by = "exams"
          THEN Cardinality(DeptSel(b)) < Cardinality(DeptSel(a))
          ELSE DeptRateLess(b, a))
    ELSE (IF resp.request.sort_by = "pass_rate" THEN SubjectRateLess(b, a)
          ELSE MeanLess(a, b))

(* C27: a paginated listing with limit L and offset O over the sorted      *)
(* result of n rows returns exactly the rows O .. O+L-1 of the sorted      *)
(* result (fewer at the end, none when O >= n), total = n whatever L and O *)
(* are, and echoes L and O.                                                *)
C27_PageOfSortedResult ==
    Listed =>
        LET items == resp.data.items
            n == Cardinality(ListEntities)
            L == resp.request.limit
            O == resp.request.offset
            names == {ItemName(items[j]) : j \in DOMAIN items}
            rest == ListEntities \ names
        IN  /\ resp.data.total = n
            /\ resp.data.limit = L /\ resp.data.offset = O
            /\ Len(items) = (IF O >= n THEN 0 ELSE IF n - O < L THEN n - O ELSE L)
            /\ names \subseteq ListEntities
            /\ Cardinality(names) = Len(items)
            /\ \A j, k \in DOMAIN items :
                  j < k => ~ListedBefore(ItemName(items[k]), ItemName(items[j]))
            /\ items # <<>> =>
                  \E skipped \in SUBSET rest :
                     /\ Cardinality(skipped) = O
                     /\ \A a \in skipped, x \in names : ~ListedBefore(x, a)
                     /\ \A a \in rest \ skipped, x \in names : ~ListedBefore(a, x)

(* the second page of one: with two departments, the one with the lower    *)
(* pass rate alone                                                         *)
C27_Witness ==
    /\ Listed
    /\ resp.handler = "list_departments"
    /\ resp.request = [limit |-> 1, offset |-> 1, sort_by |-> "pass_rate"]
    /\ resp.data.total = 2
    /\ Len(resp.data.items) = 1
    /\ \E d \in GroupKeys(df, "department") : DeptRateLess(resp.data.items[1].department, d)

---------------------------------------------------------------------------
(* Claims about failed builds *)

(* C28: a build that fails is not memoised.  When add_performance_column   *)
(* raises inside get_dataframe the cache stays empty, the request gets an  *)
(* error result, and the next get_dataframe call runs the build again; a   *)
(* table enters the cache only when its build has completed.               *)
C28_FailedBuildNotCached ==
    [][\A c \in Callers :
          /\ calls'[c].pc = "raised" => (cache' = <<>> /\ cache = <<>>)
          /\ (calls[c].pc = "raised" /\ calls'[c].pc = "idle") =>
                (resp'.status = "error" /\ resp'.error_code # "none")
          /\ (calls[c].pc = "idle" /\ calls'[c].pc # "idle" /\ Builds(source) = {}) =>
                calls'[c].pc = "loading"
          /\ (cache' # cache /\ cache' # <<>>) =>
                \E b \in Callers :
                    /\ calls[b].pc = "built"
                    /\ cache' = <<calls[b].table>>
                    /\ calls[b].table \in Builds(source)]_vars

(* after a request answered with an error, the next one is building again *)
C28_Witness ==
    /\ source = NoFile
    /\ resp.status = "error"
    /\ cache = <<>>
    /\ \E c \in Callers : calls[c].pc = "classifying"

---------------------------------------------------------------------------
(* The departments router: routes in declaration order *)

(* a path is the sequence of segments after the prefix /api/v1/departments *)
DepartmentRoutes ==
    << [path |-> <<>>, endpoint |-> "list_departments"],
       [path |-> <<"{department_name}">>, endpoint |-> "get_department_details"],
       [path |-> <<"{department_name}", "subjects">>, endpoint |-> "get_department_subjects"],
       [path |-> <<"leaderboard">>, endpoint |-> "get_department_leaderboard"] >>

IsPathParam(segment) == segment = "{department_name}"

(* a parameter matches any one segment, a literal only itself *)
RouteMatches(route, path) ==
    /\ Len(route.path) = Len(path)
    /\ \A i \in 1..Len(path) : IsPathParam(route.path[i]) \/ route.path[i] = path[i]

PathParams(route, path) ==
    IF \E i \in 1..Len(path) : IsPathParam(route.path[i])
    THEN path[CHOOSE i \in 1..Len(path) : IsPathParam(route.path[i])]
    ELSE "none"

(* the router tries its routes in the order they were added and stops at *)
(* the first that matches; no match is answered 404 Not Found            *)
MatchingRoutes(path) == {i \in 1..Len(DepartmentRoutes) : RouteMatches(DepartmentRoutes[i], path)}

route_request(path) ==
    IF MatchingRoutes(path) = {}
    THEN [endpoint |-> "not_found", department_name |-> "none"]
    ELSE LET i == CHOOSE k \in MatchingRoutes(path) : \A j \in MatchingRoutes(path) : k <= j
         IN [endpoint |-> DepartmentRoutes[i].endpoint,
             department_name |-> PathParams(DepartmentRoutes[i], path)]

MaxSegments == 3
PathSegments == {"leaderboard", "subjects", "CSE", "ECE"}

RequestPaths == UNION {[1..n -> PathSegments] : n \in 0..MaxSegments}

InitRoute ==
    /\ source \in RequestPaths
    /\ df = EmptyTable
    /\ pc = "request"
    /\ resp = [endpoint |-> "none", department_name |-> "none"]
    /\ NotServing

RouteRequest ==
    /\ pc = "request"
    /\ resp' = route_request(source)
    /\ pc' = "routed"
    /\ UNCHANGED <<source, df, serving>>

NextRoute == RouteRequest

SpecRoute == InitRoute /\ [][NextRoute]_vars

(* C29: a GET for /api/v1/departments/leaderboard is served by              *)
(* get_department_leaderboard, not by get_department_details with           *)
(* department_name = "leaderboard"; every request is served by the first    *)
(* declared route that matches its path.                                    *)
C29_LeaderboardRoute ==
    pc = "routed" =>
        /\ \A i \in MatchingRoutes(source) :
              (\A j \in MatchingRoutes(source) : i <= j) =>
                  resp.endpoint = DepartmentRoutes[i].endpoint
        /\ source = <<"leaderboard">> => resp.endpoint = "get_department_leaderboard"

---------------------------------------------------------------------------
(* Grouped aggregations on tables with null group keys *)

MaxGroupRows == 3

GroupedRows ==
    {AggRow(Utf8(sPass), F64(5000), F64(4000), I64(2020), Utf8(sDeptA), I64(1)),
     AggRow(Utf8(spass), F64(5000), F64(4000), Null, Utf8(sDeptB), I64(1)),
     AggRow(Utf8(sPass), F64(5000), F64(4000), I64(2021), Null, I64(2)),
     AggRow(Utf8(sFail), F64(3000), F64(3000), Null, Null, I64(2)),
     AggRow(Null, F64(3000), F64(3000), I64(2020), Utf8(sDeptA), I64(2))}

InitGroup ==
    /\ source \in {TableOf(rows) : rows \in SeqsUpTo(GroupedRows, MaxGroupRows)}
    /\ df = EmptyTable
    /\ pc = "file"
    /\ resp = [of |-> "none", groups |-> <<>>]
    /\ NotServing

GetYearlyData ==
    /\ pc = "ready"
    /\ resp' = [of |-> "get_yearly_data", groups |-> get_yearly_data(df)]
    /\ UNCHANGED <<source, df, pc, serving>>

GetDepartmentStats ==
    /\ pc = "ready"
    /\ \E stats \in get_department_stats(df) :
          resp' = [of |-> "get_department_stats", groups |-> stats]
    /\ UNCHANGED <<source, df, pc, serving>>

NextGroup == LoadData \/ AddPerformanceColumn \/ GetYearlyData \/ GetDepartmentStats

SpecGroup == InitGroup /\ [][NextGroup]_vars

RECURSIVE GroupSum(_, _)
GroupSum(groups, field) ==
    IF groups = <<>> THEN 0
    ELSE groups[1][field] + GroupSum(Tail(groups), field)

RowsWithKey(c, k) == Cardinality({i \in DOMAIN df.rows : df.rows[i][c] = k})
PassesWithKey(c, k) ==
    Cardinality({i \in DOMAIN df.rows :
                    df.rows[i][c] = k /\ NormText(df.rows[i]["pass_fail"]) = to_lowercase(sPass)})

(* C30: the grouped aggregations partition their input.  For                *)
(* get_yearly_data and get_department_stats every row is counted in exactly *)
(* one group, rows with a null key forming a group of their own: each key   *)
(* of the table has exactly one group, holding the rows and the passes of   *)
(* that key, so the group counts sum to the number of rows and the group    *)
(* pass counts to the overall pass count.                                   *)
C30_GroupsPartitionInput ==
    /\ resp.of = "get_yearly_data" =>
          /\ Len(resp.groups) = Cardinality(GroupKeys(df, "exam_year"))
          /\ \A k \in GroupKeys(df, "exam_year") :
                \E j \in DOMAIN resp.groups :
                    /\ resp.groups[j].exam_year = k
                    /\ resp.groups[j].total_exams = RowsWithKey("exam_year", k)
                    /\ resp.groups[j].pass_count = PassesWithKey("exam_year", k)
          /\ GroupSum(resp.groups, "total_exams") = Height(df)
          /\ GroupSum(resp.groups, "pass_count") = pass_count(df.rows)
    /\ resp.of = "get_department_stats" =>
          /\ Len(resp.groups) = Cardinality(GroupKeys(df, "department"))
          /\ \A k \in GroupKeys(df, "department") :
                \E j \in DOMAIN resp.groups :
                    /\ resp.groups[j].department = k
                    /\ resp.groups[j].exams = RowsWithKey("department", k)
                    /\ resp.groups[j].pass_count = PassesWithKey("department", k)
          /\ GroupSum(resp.groups, "exams") = Height(df)
          /\ GroupSum(resp.groups, "pass_count") = pass_count(df.rows)

(* three rows, one of them with a null key, grouped both ways *)
C30_Witness ==
    /\ resp.of = "get_department_stats"
    /\ Height(df) = 3
    /\ Null \in GroupKeys(df, "department")
    /\ Cardinality(GroupKeys(df, "department")) = 2
    /\ pass_count(df.rows) = 2

===========================================================================
